---- MODULE Spec2Model ----
(***************************************************************************)
(* Git-Summary: the report pipeline of git-log.js (project loop, ticket    *)
(* fetch, active-ticket listing, zero-commit exit, blocker step, LLM step) *)
(* and the retry ladders of the two LLM providers.                         *)
(***************************************************************************)
EXTENDS Integers, Sequences, FiniteSets, TLC

VARIABLES
    pc,                 \* position of the main async function of git-log.js
    exitCode,           \* NoExit while the process runs, else its exit code
    ticketApi,          \* which definition of fetchTicketDescription is loaded
    config,             \* the loaded config.json
    p,                  \* index of the project the loop is at
    commits,            \* commit lines of the current project (git log result)
    c,                  \* index of the commit the inner loop is at
    ticketId,           \* ticket id extracted from the current commit line
    projectCommitDetails, \* display rows of the current project
    projectCommits,     \* the aggregate list of bundles
    totalCommitCount,   \* running total of commits
    world,              \* per scanned project: what its scan found, lister calls
    trackerActive,      \* keys of the active tickets the tracker holds for the assignee
    lastFetch,          \* the fetchTicketDescription call of the step just taken
    blockerInfo,        \* blocker text handed to the summarizer
    blockerAsked,       \* the blocker step (flag or prompt) has run
    promptBuilt,        \* the prompt template has been rendered
    promptFile,         \* custom-prompt.txt: whether it exists, and its body
    finalPrompt,        \* the prompt handed to the ladder (empty before rendering)
    i,                  \* ladder: index of the next rung (0-based, as in the code)
    requested,          \* ladder: models requested so far, in order
    replies,            \* ladder: what each request did, in order
    delays,             \* ladder: number of delays awaited between rungs
    lastError,          \* ladder: lastError of the summarizer
    llm,                \* how the summarizer call ended, as seen by main
    args,               \* process.argv.slice(2): the flags of the invocation
    configFile,         \* config.json: whether it exists, and the config in it
    window,             \* sinceDate and untilDate of the git command
    layout,             \* which saveConfig is loaded: git-log.js or src/config.js
    prompts,            \* the questions asked on the terminal, with their answers
    inFlight,           \* network requests issued and not yet settled
    issued,             \* every network request issued so far, in order
    zoho                \* the Zoho authorization server and the last call of the Zoho module

vars == << pc, exitCode, ticketApi, config, p, commits, c, ticketId,
           projectCommitDetails, projectCommits, totalCommitCount, world,
           trackerActive, lastFetch, blockerInfo, blockerAsked,
           promptBuilt, promptFile, finalPrompt, i, requested, replies,
           delays, lastError, llm, args, configFile, window, layout, prompts,
           inFlight, issued, zoho >>

(***************************************************************************)
(* Bounds of the model.                                                    *)
(***************************************************************************)
MaxProjects == 2
MaxCommits == 2
MaxLineLen == 4
MaxCustom == 2
MaxTickets == 3
MaxTemplateLen == 3

NoExit == -1

Min(S) == CHOOSE x \in S : \A y \in S : x <= y

(***************************************************************************)
(* LLM errors.  An error is what makeRequest throws: either the object     *)
(* {statusCode, statusMessage, data} of a non-ok response, or an Error     *)
(* "Failed to make request: ...".  Texts are kept as the set of the        *)
(* classifier keywords they contain (lower-cased).                         *)
(*   kind    "http" (thrown object, no .message) or "error" (Error)        *)
(*   msg     keywords in error.message                                     *)
(*   body    TRUE iff error.data.error.message exists                      *)
(*   data    keywords in error.data.error.message                          *)
(*   code    error.data.error.code, "" when absent                         *)
(***************************************************************************)
NoError == [name |-> "null", kind |-> "none", msg |-> {}, body |-> FALSE,
            data |-> {}, code |-> ""]

HttpError(name, data, code) ==
    [name |-> name, kind |-> "http", msg |-> {}, body |-> TRUE,
     data |-> data, code |-> code]

Errors ==
    { HttpError("quota", {"quota"}, "insufficient_quota"),
      HttpError("billing", {"billing"}, ""),
      HttpError("invalid_key", {"invalid api key"}, "invalid_api_key"),
      HttpError("unauthorized", {"unauthorized"}, ""),
      HttpError("model_not_found", {"model"}, "model_not_found"),
      HttpError("rate_limit", {"rate limit"}, "rate_limit_exceeded"),
      HttpError("rate_limit_model", {"rate limit", "model"}, "rate_limit_exceeded"),
      HttpError("server", {}, ""),
      [name |-> "no_error_body", kind |-> "http", msg |-> {}, body |-> FALSE,
       data |-> {}, code |-> ""],
      [name |-> "network", kind |-> "error", msg |-> {}, body |-> FALSE,
       data |-> {}, code |-> ""],
      [name |-> "network_quota", kind |-> "error", msg |-> {"quota"}, body |-> FALSE,
       data |-> {}, code |-> ""] }

ErrorNamed(n) == CHOOSE e \in Errors : e.name = n

\* const errorMessage = error.message || error.toString()
errorMessage(error) == IF error.kind = "error" THEN error.msg ELSE {}
\* const errorData = error.data?.error?.message || ""
errorData(error) == IF error.body THEN error.data ELSE {}
\* const errorCode = error.data?.error?.code || ""
errorCode(error) == error.code

shouldRetryIgnoresQuota(error) ==
    ~ ( "unauthorized" \in errorMessage(error)
        \/ "invalid api key" \in errorMessage(error)
        \/ "authentication" \in errorMessage(error)
        \/ "unauthorized" \in errorData(error)
        \/ "invalid api key" \in errorData(error) )

\* gemini-service.js shouldRetry
shouldRetry(error) ==
    IF "rate limit" \in errorMessage(error)
       \/ "quota" \in errorMessage(error)
       \/ "rate limit" \in errorData(error)
       \/ "quota" \in errorData(error)
    THEN FALSE
    ELSE IF "unauthorized" \in errorMessage(error)
            \/ "invalid api key" \in errorMessage(error)
            \/ "authentication" \in errorMessage(error)
            \/ "unauthorized" \in errorData(error)
            \/ "invalid api key" \in errorData(error)
    THEN FALSE
    ELSE TRUE

\* chatgpt-service.js analyzeError
analyzeError(error) ==
    IF "quota" \in errorMessage(error)
       \/ "billing" \in errorMessage(error)
       \/ "quota" \in errorData(error)
       \/ "billing" \in errorData(error)
       \/ errorCode(error) = "insufficient_quota"
    THEN [shouldRetry |-> FALSE, shouldFallback |-> FALSE]
    ELSE IF "invalid api key" \in errorMessage(error)
            \/ "unauthorized" \in errorMessage(error)
            \/ "invalid api key" \in errorData(error)
            \/ errorCode(error) = "invalid_api_key"
    THEN [shouldRetry |-> FALSE, shouldFallback |-> FALSE]
    ELSE IF "model" \in errorMessage(error)
            \/ "model" \in errorData(error)
            \/ errorCode(error) = "model_not_found"
    THEN [shouldRetry |-> FALSE, shouldFallback |-> TRUE]
    ELSE IF "rate limit" \in errorMessage(error)
            \/ "rate limit" \in errorData(error)
            \/ errorCode(error) = "rate_limit_exceeded"
    THEN [shouldRetry |-> FALSE, shouldFallback |-> FALSE]
    ELSE [shouldRetry |-> TRUE, shouldFallback |-> TRUE]

GeminiRetrySequenceSixRungs ==
    << [model |-> "gemini-2.5-pro", attempt |-> 1],
       [model |-> "gemini-2.5-pro", attempt |-> 2],
       [model |-> "gemini-2.5-flash", attempt |-> 1],
       [model |-> "gemini-2.5-flash", attempt |-> 2],
       [model |-> "gemini-2.5-pro", attempt |-> 3],
       [model |-> "gemini-2.5-flash", attempt |-> 3] >>

\* summarizeWithGemini: const retrySequence
GeminiRetrySequence ==
    << [model |-> "gemini-2.5-pro", attempt |-> 1],
       [model |-> "gemini-2.5-pro", attempt |-> 2],
       [model |-> "gemini-2.5-flash", attempt |-> 1],
       [model |-> "gemini-2.5-flash", attempt |-> 2],
       [model |-> "gemini-2.5-pro", attempt |-> 3] >>

\* summarizeWithChatGPT: const retrySequence
ChatGPTRetrySequence ==
    << [model |-> "gpt-4o-mini", attempt |-> 1],
       [model |-> "gpt-4o-mini", attempt |-> 2],
       [model |-> "gpt-3.5-turbo", attempt |-> 1],
       [model |-> "gpt-3.5-turbo", attempt |-> 2],
       [model |-> "gpt-4o-mini", attempt |-> 3] >>

retrySequence(provider) ==
    IF provider = "gemini" THEN GeminiRetrySequence ELSE ChatGPTRetrySequence

\* The model the request of rung k (0-based) is addressed to:
\* callGeminiAPI(model, ...) takes the rung's model, callChatGPTAPI is
\* called with the literal "gpt-4o-mini" for every rung.
RequestedModel(provider, k) ==
    IF provider = "gemini" THEN GeminiRetrySequence[k + 1].model ELSE "gpt-4o-mini"


(***************************************************************************)
(* One iteration of the ladder loop of summarizeWithGemini /               *)
(* summarizeWithChatGPT.  An outcome is what the awaited request did:      *)
(* non-empty text, empty or missing text, or a thrown error.               *)
(***************************************************************************)
TextOutcome == [kind |-> "text", error |-> NoError]
EmptyOutcome == [kind |-> "empty", error |-> NoError]
ErrorOutcome(e) == [kind |-> "error", error |-> e]

AllRungOutcomes == {TextOutcome, EmptyOutcome} \cup {ErrorOutcome(e) : e \in Errors}

\* Does the catch block throw out of the ladder for this error?
\*   gemini:  if (!shouldRetry(error)) throw
\*   chatgpt: if (!shouldRetry && !shouldFallback) throw
Aborts(provider, error) ==
    IF provider = "gemini"
    THEN ~ shouldRetry(error)
    ELSE ~ analyzeError(error).shouldRetry /\ ~ analyzeError(error).shouldFallback

\* The log line of the gemini catch block reads error.data.error.message
\* unguarded; the chatgpt one reads error.data?.error?.message || error.message.
LogThrows(provider, error) == provider = "gemini" /\ ~ error.body

RungResultNoEarlyReturn(provider, k, outcome) ==
    IF outcome.kind \in {"text", "empty"}
    THEN IF k < Len(retrySequence(provider)) - 1 THEN "next" ELSE "exhausted"
    ELSE IF Aborts(provider, outcome.error) THEN "abort"
    ELSE IF LogThrows(provider, outcome.error) THEN "typeerror"
    ELSE IF k < Len(retrySequence(provider)) - 1 THEN "delay_next"
    ELSE "exhausted"

\* What iteration k (0-based) of the for loop does with the outcome:
\*   "return"     return summary
\*   "next"       fall out of the try with a falsy summary: next iteration
\*   "abort"      throw new Error(`... API error: ${errorMsg}`)
\*   "typeerror"  the log line of the catch block throws
\*   "delay_next" await the delay, continue
\*   "exhausted"  the loop ends, the code after it throws
RungResult(provider, k, outcome) ==
    IF outcome.kind = "text" THEN "return"
    ELSE IF outcome.kind = "empty"
    THEN IF k < Len(retrySequence(provider)) - 1 THEN "next" ELSE "exhausted"
    ELSE IF Aborts(provider, outcome.error) THEN "abort"
    ELSE IF LogThrows(provider, outcome.error) THEN "typeerror"
    ELSE IF k < Len(retrySequence(provider)) - 1 THEN "delay_next"
    ELSE "exhausted"

\* const llmProvider = config.llmProvider || "gemini"
llmProvider(cfg) == IF cfg.llmProvider = "missing" THEN "gemini" ELSE cfg.llmProvider

\* !key
BlankOnlyMissing(key) == key = "missing"

\* !key || !key.trim()
Blank(key) == key \in {"missing", "", " "}

NoLlm == [status |-> "none", detail |-> ""]

OnSummaryErrorExits == [pc |-> "exited", exitCode |-> 1]

\* main 820-838: catch (error) of the LLM step prints the message, the closing
\* lines follow, the async function returns and the process ends with code 0.
OnSummaryError == [pc |-> "exited", exitCode |-> 0]

(***************************************************************************)
(* The prompt (gemini-service.js 69-92 and 210-244, chatgpt-service.js      *)
(* 69-81 and 216-250).  A text is a sequence of symbols: "t" is template    *)
(* text, "d" text of the project data, "b" blocker text; the placeholders   *)
(* "{PROJECT_DATA}" and "{BLOCKERS}" and the replacement pattern "$&" are   *)
(* one symbol each.                                                        *)
(***************************************************************************)
\* let blockerInfo = "None"
NoBlocker == << "None" >>

\* const DEFAULT_PROMPT
DEFAULT_PROMPT == << "t", "{PROJECT_DATA}", "t", "{BLOCKERS}", "t" >>

\* custom-prompt.txt as createDefaultPromptFile writes it.
DefaultPromptFile == [exists |-> TRUE, body |-> DEFAULT_PROMPT]

\* loadPromptTemplate: the file's text when it exists and is not blank.
loadPromptTemplate(file) ==
    IF file.exists /\ file.body # << >> THEN file.body ELSE DEFAULT_PROMPT

\* Concatenation of a sequence of texts.
RECURSIVE Flatten(_)
Flatten(texts) ==
    IF texts = << >> THEN << >> ELSE Head(texts) \o Flatten(Tail(texts))

\* projectDataText: per bundle the project heading, the commit lines, the
\* active tickets when there are any, and the closing rule.
ProjectDataText(bundles) ==
    Flatten([k \in 1..Len(bundles) |->
        << "d" >>
        \o Flatten([j \in 1..Len(bundles[k].commits) |-> bundles[k].commits[j].commit])
        \o (IF bundles[k].activeTickets # << >> THEN << "d" >> ELSE << >>)
        \o << "d" >>])

\* The replacement string as String.prototype.replace inserts it: "$&" stands
\* for the matched text.
Expand(replacement, matched) ==
    [k \in 1..Len(replacement) |->
        IF replacement[k] = "$&" THEN matched ELSE replacement[k]]

\* Position of the first occurrence of symbol in text at k or later, 0 if none.
RECURSIVE IndexOf(_, _, _)
IndexOf(text, symbol, k) ==
    IF k > Len(text) THEN 0
    ELSE IF text[k] = symbol THEN k
    ELSE IndexOf(text, symbol, k + 1)

\* text.replace(placeholder, replacement) with a string pattern: the first
\* occurrence only.
Replace(text, placeholder, replacement) ==
    LET k == IndexOf(text, placeholder, 1)
    IN  IF k = 0 THEN text
        ELSE SubSeq(text, 1, k - 1) \o Expand(replacement, placeholder)
                \o SubSeq(text, k + 1, Len(text))

\* let finalPrompt = promptTemplate.replace("{PROJECT_DATA}", projectDataText);
\* finalPrompt = finalPrompt.replace("{BLOCKERS}", blockerInfo);
FinalPrompt(promptTemplate, projectDataText, blocker) ==
    Replace(Replace(promptTemplate, "{PROJECT_DATA}", projectDataText),
            "{BLOCKERS}", blocker)

\* summarizeWithLLM up to the ladder: provider dispatch, API key check,
\* loadPromptTemplate and the placeholder substitution.
SummarizeStart ==
    /\ pc = "llm"
    /\ IF llmProvider(config) \notin {"gemini", "chatgpt"}
       THEN /\ llm' = [status |-> "threw", detail |-> "unknown_provider"]
            /\ pc' = OnSummaryError.pc
            /\ exitCode' = OnSummaryError.exitCode
            /\ UNCHANGED << promptBuilt, finalPrompt, i, lastError >>
       ELSE IF Blank(IF llmProvider(config) = "gemini"
                     THEN config.geminiApiKey ELSE config.chatgptApiKey)
       THEN /\ llm' = [status |-> "threw", detail |-> "no_key"]
            /\ pc' = OnSummaryError.pc
            /\ exitCode' = OnSummaryError.exitCode
            /\ UNCHANGED << promptBuilt, finalPrompt, i, lastError >>
       ELSE /\ promptBuilt' = TRUE
            /\ finalPrompt' = FinalPrompt(loadPromptTemplate(promptFile),
                                          ProjectDataText(projectCommits),
                                          blockerInfo)
            /\ i' = 0
            /\ lastError' = NoError
            /\ pc' = "ladder"
            /\ UNCHANGED << llm, exitCode >>
    /\ UNCHANGED << ticketApi, config, p, commits, c, ticketId,
                    projectCommitDetails, projectCommits, totalCommitCount,
                    world, trackerActive, promptFile, lastFetch, blockerInfo,
                    blockerAsked, requested, replies, delays, args, configFile,
                    window, layout, prompts, inFlight, issued, zoho >>

\* const errorMsg = error.data?.error?.message || error.message: the text of
\* the error (here its name), or undefined for a thrown response object whose
\* body has no error message.
errorMsg(error) ==
    IF error.body THEN error.name
    ELSE IF error.kind = "error" THEN error.name
    ELSE "undefined"

\* What the message of the Error leaving the summarizer embeds, by the way
\* the ladder ended: the throw of the catch block, the throws after the loop
\* (lastError.data?.error?.message, else lastError.message, else the fixed
\* text), or the TypeError of the log line.
thrownMessage(detail, error) ==
    IF detail \in {"abort", "exhausted"} THEN errorMsg(error)
    ELSE IF detail = "no_response" THEN "No response received"
    ELSE IF detail = "typeerror" THEN "TypeError"
    ELSE detail

\* One iteration of the for loop over retrySequence, with the request awaited.
LadderRung(Outcomes) ==
    /\ pc = "ladder"
    /\ i < Len(retrySequence(llmProvider(config)))
    /\ \E outcome \in Outcomes :
        LET provider == llmProvider(config)
            r == RungResult(provider, i, outcome)
            err == IF outcome.kind = "error" THEN outcome.error ELSE lastError
        IN  /\ requested' = Append(requested, RequestedModel(provider, i))
            /\ replies' = Append(replies, outcome)
            /\ delays' = IF r = "delay_next" THEN delays + 1 ELSE delays
            /\ lastError' = err
            /\ IF r = "return"
               THEN /\ llm' = [status |-> "summary", detail |-> ""]
                    /\ pc' = "exited"
                    /\ exitCode' = 0
                    /\ UNCHANGED i
               ELSE IF r \in {"next", "delay_next"}
               THEN /\ i' = i + 1
                    /\ UNCHANGED << llm, pc, exitCode >>
               ELSE /\ llm' = [status |-> "threw",
                               detail |-> IF r = "exhausted" /\ err = NoError
                                          THEN "no_response" ELSE r]
                    /\ pc' = OnSummaryError.pc
                    /\ exitCode' = OnSummaryError.exitCode
                    /\ i' = IF r = "exhausted" THEN i + 1 ELSE i
    /\ UNCHANGED << ticketApi, config, p, commits, c, ticketId,
                    projectCommitDetails, projectCommits, totalCommitCount,
                    world, trackerActive, lastFetch, blockerInfo,
                    blockerAsked, promptBuilt, promptFile, finalPrompt, args, configFile,
                    window, layout, prompts, inFlight, issued, zoho >>


(***************************************************************************)
(* Ticket-id extraction (git-log.js 577-591, 639-648).  A commit line is a *)
(* sequence of one-character strings.  A pattern is the parsed form of a   *)
(* regular expression of the shape used here: a sequence of atoms, each a  *)
(* character class with a quantifier "one", "plus" or "star".              *)
(***************************************************************************)
Upper == {"A", "B", "C", "D", "E", "F", "G", "H", "I", "J", "K", "L", "M",
          "N", "O", "P", "Q", "R", "S", "T", "U", "V", "W", "X", "Y", "Z"}
Digit == {"0", "1", "2", "3", "4", "5", "6", "7", "8", "9"}

Atom(cls, q) == [cls |-> cls, q |-> q]

\* /[A-Z]+\d*-\d+/
JiraPattern ==
    << Atom(Upper, "plus"), Atom(Digit, "star"), Atom({"-"}, "one"),
       Atom(Digit, "plus") >>

builtInPatterns == << JiraPattern >>

\* Custom patterns a config may hold (customTicketPatterns), parsed:
\*   "#\\d+"   "\\d+"   "[A-Z]+"
CustomPatternChoices ==
    { << Atom({"#"}, "one"), Atom(Digit, "plus") >>,
      << Atom(Digit, "plus") >>,
      << Atom(Upper, "plus") >> }

\* Length of the longest run of characters of cls in s starting at pos.
RECURSIVE RunLen(_, _, _)
RunLen(s, pos, cls) ==
    IF pos > Len(s) \/ s[pos] \notin cls THEN 0 ELSE 1 + RunLen(s, pos + 1, cls)

\* Backtracking match of atoms k.. of pat at position pos of s, each
\* quantifier greedy: the position after the match, or 0 when there is none.
\* TryLen tries the repetition counts n, n-1, .. lo of atom k in turn.
RECURSIVE MatchFrom(_, _, _, _), TryLen(_, _, _, _, _, _)
TryLen(pat, k, s, pos, n, lo) ==
    IF n < lo THEN 0
    ELSE LET after == MatchFrom(pat, k + 1, s, pos + n)
         IN  IF after # 0 THEN after ELSE TryLen(pat, k, s, pos, n - 1, lo)

MatchFrom(pat, k, s, pos) ==
    IF k > Len(pat) THEN pos
    ELSE LET a == pat[k]
             run == RunLen(s, pos, a.cls)
             lo == IF a.q = "star" THEN 0 ELSE 1
             hi == IF a.q = "one" THEN (IF run >= 1 THEN 1 ELSE 0) ELSE run
         IN  TryLen(pat, k, s, pos, hi, lo)

\* The leftmost match of pat in s at a start position b or later.
RECURSIVE MatchAtOrAfter(_, _, _)
MatchAtOrAfter(s, pat, b) ==
    IF b > Len(s) + 1 THEN [found |-> FALSE, text |-> << >>]
    ELSE LET after == MatchFrom(pat, 1, s, b)
         IN  IF after # 0 THEN [found |-> TRUE, text |-> SubSeq(s, b, after - 1)]
             ELSE MatchAtOrAfter(s, pat, b + 1)

\* commit.match(pattern) for a non-global pattern: the leftmost match, or null.
StringMatch(s, pat) == MatchAtOrAfter(s, pat, 1)

\* The sentinel "No ticket ID" (no character of a commit line equals it).
NoTicketId == << "No ticket ID" >>

PatternsCustomFirst(custom) == custom \o builtInPatterns

\* const patterns = [...builtInPatterns]; customTicketPatterns.forEach(push)
Patterns(custom) == builtInPatterns \o custom

RECURSIVE ExtractLastMatch(_, _, _)
ExtractLastMatch(commit, patterns, k) ==
    IF k > Len(patterns) THEN NoTicketId
    ELSE LET rest == ExtractLastMatch(commit, patterns, k + 1)
         IN  IF rest # NoTicketId THEN rest
             ELSE LET match == StringMatch(commit, patterns[k])
                  IN  IF match.found THEN match.text ELSE NoTicketId

\* let ticketId = "No ticket ID"; for (const pattern of patterns) { ... break }
\* from pattern k on.
RECURSIVE ExtractFrom(_, _, _)
ExtractFrom(commit, patterns, k) ==
    IF k > Len(patterns) THEN NoTicketId
    ELSE LET match == StringMatch(commit, patterns[k])
         IN  IF match.found THEN match.text
             ELSE ExtractFrom(commit, patterns, k + 1)

ExtractTicketId(commit, patterns) == ExtractFrom(commit, patterns, 1)

(***************************************************************************)
(* fetchTicketDescription.  The repository carries three definitions:      *)
(*   "ticket-api-1"  ticket-api.js 92-104, https.get, no optional chaining *)
(*   "ticket-api-2"  ticket-api.js 235-254, fetch inside try/catch         *)
(*   "jira-js"       src/task-management/jira.js 103-115, https.get        *)
(* A tracker outcome is what the request does: "ok" (success status, body  *)
(* as expected), "http_fail" (non-success status), "net_error" (DNS,       *)
(* refused, timeout), "bad_body" (success status, body cannot be parsed).  *)
(***************************************************************************)
TicketApis == {"ticket-api-1", "ticket-api-2", "jira-js"}
TrackerOutcomes == {"ok", "http_fail", "net_error", "bad_body"}

\* config.taskManagementSystem?.toLowerCase()
toLowerCase(system) ==
    IF system \in {"JIRA", "Jira"} THEN "jira"
    ELSE IF system \in {"ZOHO", "Zoho"} THEN "zoho"
    ELSE system

\* fetchJiraTicket / fetchZohoTicket: how the request settles.
\*   https.get variants: JSON.parse runs in the "end" listener, outside any
\*   try; fetch variant: everything inside try/catch.
fetchTicket(api, outcome) ==
    IF outcome = "ok" THEN "ticket"
    ELSE IF outcome \in {"http_fail", "net_error"} THEN "null"
    ELSE IF api = "ticket-api-2" THEN "null" ELSE "crash"

\* result: "ticket", "null", "throw" (rejected promise) or "crash" (uncaught
\* exception in an event listener: the promise never settles, the process dies)
\* requests: network requests issued
fetchTicketDescription(api, id, system, outcome) ==
    IF id = NoTicketId THEN [result |-> "null", requests |-> 0]
    ELSE IF system = "missing" /\ api = "ticket-api-1"
    THEN [result |-> "throw", requests |-> 0]
    ELSE IF system # "missing" /\ toLowerCase(system) \in {"jira", "zoho"}
    THEN [result |-> fetchTicket(api, outcome), requests |-> 1]
    ELSE [result |-> "null", requests |-> 0]


(***************************************************************************)
(* The whole ladder as one call: the ways summarizeWithGemini /            *)
(* summarizeWithChatGPT can end from rung k on with the given lastError,   *)
(* when each request's outcome is drawn from Outcomes.                     *)
(***************************************************************************)
RECURSIVE LadderEnds(_, _, _, _)
LadderEnds(provider, k, err, Outcomes) ==
    UNION { LET r == RungResult(provider, k, o)
                e == IF o.kind = "error" THEN o.error ELSE err
            IN  IF r = "return" THEN {[status |-> "summary", detail |-> ""]}
                ELSE IF r \in {"next", "delay_next"}
                THEN LadderEnds(provider, k + 1, e, Outcomes)
                ELSE {[status |-> "threw",
                       detail |-> IF r = "exhausted" /\ e = NoError
                                  THEN "no_response" ELSE r]}
          : o \in Outcomes }

\* Outcomes drawn by the full report run.
RunRungOutcomes ==
    { TextOutcome, EmptyOutcome, ErrorOutcome(ErrorNamed("rate_limit")),
      ErrorOutcome(ErrorNamed("network")) }

GeminiRunEnds == LadderEnds("gemini", 0, NoError, RunRungOutcomes)
ChatGPTRunEnds == LadderEnds("chatgpt", 0, NoError, RunRungOutcomes)

(***************************************************************************)
(* The report run: main of git-log.js from loadConfig on.                  *)
(***************************************************************************)
\* Commit lines of the repositories of the run: "P-1 f" and "fix".
TicketLine == << "P", "-", "1", " ", "f" >>
PlainLine == << "f", "i", "x" >>

\* Result of `git log --oneline` with n commits, split into non-empty lines.
CommitLog(n) == [k \in 1..n |-> IF k = 1 THEN TicketLine ELSE PlainLine]
ScanResults ==
    {[failed |-> TRUE, log |-> << >>]}
        \cup {[failed |-> FALSE, log |-> CommitLog(n)] : n \in 0..MaxCommits}

NoFetch == [id |-> << >>, system |-> "", outcome |-> "", result |-> "none", requests |-> 0]

KeyValues == {"missing", "", " ", "key"}
\* setupConfig writes no taskManagementSystem.
RunTrackerTypes == {"missing"}

\* What the tracker may hold for the assignee: tickets with key and priority.
TrackerLists == {<< >>, << [key |-> 1, priority |-> "High"] >>}
ProjectLists == UNION {[1..n -> [jira : BOOLEAN]] : n \in 0..MaxProjects}

Configs ==
    { [llmProvider |-> lp, geminiApiKey |-> gk, chatgptApiKey |-> ck,
       taskManagementSystem |-> tms, projects |-> ps,
       customTicketPatterns |-> << >>] :
        lp \in {"gemini", "chatgpt"}, gk \in KeyValues, ck \in KeyValues,
        tms \in RunTrackerTypes, ps \in ProjectLists }

\* setupConfig stores the key of the chosen provider only.
RunConfigs ==
    { cfg \in Configs : IF cfg.llmProvider = "gemini"
                        THEN cfg.chatgptApiKey = "missing"
                        ELSE cfg.geminiApiKey = "missing" }

(***************************************************************************)
(* The invocation: flags, config.json, custom-prompt.txt, the terminal.    *)
(***************************************************************************)
\* Calendar days are numbered; MaxDay is the last day --date may name.
MaxDay == 2

\* The token after --date / -d: none (flag absent, or last argument), one
\* failing /^\d{4}-\d{2}-\d{2}$/, one that passes but is no date, or day D.
NoDate == [kind |-> "absent", day |-> 0]
DateArgs ==
    {NoDate, [kind |-> "no_value", day |-> 0],
     [kind |-> "malformed", day |-> 0], [kind |-> "invalid", day |-> 0]}
        \cup {[kind |-> "valid", day |-> d] : d \in 1..MaxDay}

\* The command main serves: the first of its flag tests that matches, in the
\* order of the code; "report" when none does.
Commands ==
    {"report", "add-project", "list-projects", "fetch-tickets", "switch-llm", "help"}

NoArgs == [setup |-> FALSE, command |-> "report", date |-> NoDate]
ArgLists == [setup : BOOLEAN, command : Commands, date : DateArgs]

\* sinceDate and untilDate are null (0) until --date is parsed.
NoWindow == [sinceDate |-> 0, untilDate |-> 0]

\* loadConfig returns null when there is no config.json.
null == [null |-> TRUE]
NoConfigFile == [exists |-> FALSE, body |-> null]
loadConfig(file) == IF file.exists THEN file.body ELSE null

\* No access token: config.zoho.accessToken is undefined.
NoToken == 0

\* No call of the Zoho module has been made and the server knows no token.
NoZoho == [valid |-> {}, minted |-> NoToken, op |-> "", step |-> "idle",
           accessToken |-> NoToken, result |-> "", refreshed |-> NoToken]

\* State of the invocation in the specifications that start after loadConfig.
Loaded ==
    /\ args = NoArgs
    /\ configFile = [exists |-> TRUE, body |-> config]
    /\ window = NoWindow
    /\ layout = "root"
    /\ prompts = << >>
    /\ inFlight = {}
    /\ issued = << >>
    /\ zoho = NoZoho

\* if (!fs.existsSync(PROMPT_FILE)) fs.writeFileSync(PROMPT_FILE, DEFAULT_PROMPT)
createDefaultPromptFile(file) == IF file.exists THEN file ELSE DefaultPromptFile

\* saveConfig writes config.json and then calls createDefaultPromptFile, inside
\* one try. git-log.js imports createDefaultPromptFile; src/config.js does not
\* bind the name, so there the call throws a ReferenceError, which the catch
\* of saveConfig logs: config.json is written, custom-prompt.txt is untouched.
saveConfig(lay, cfg, file) ==
    [configFile |-> [exists |-> TRUE, body |-> cfg],
     promptFile |-> IF lay = "root" THEN createDefaultPromptFile(file) ELSE file]

\* Answers to "Do you use Jira for this project?".
ProjectAnswers == [jira : BOOLEAN]
\* A key typed at the prompt, trimmed: the loop repeats until it is non-blank.
TypedKeys == {"typed"}
Authors == {"", "a"}
LlmChoices == {"1", "2"}

\* setupConfig 94-157 (setupDate left out).
setupConfig(author, llmChoice, apiKey, firstProject) ==
    [author |-> author,
     llmProvider |-> IF llmChoice = "1" THEN "gemini" ELSE "chatgpt",
     geminiApiKey |-> IF llmChoice = "1" THEN apiKey ELSE "missing",
     chatgptApiKey |-> IF llmChoice = "1" THEN "missing" ELSE apiKey,
     taskManagementSystem |-> "missing",
     projects |-> << firstProject >>,
     customTicketPatterns |-> << >>]

\* The provider is set and its key is replaced by the one typed.
switchLLMAlwaysAsks(cfg, llmChoice, apiKey) ==
    IF llmChoice = "1"
    THEN [cfg EXCEPT !.llmProvider = "gemini", !.geminiApiKey = apiKey]
    ELSE [cfg EXCEPT !.llmProvider = "chatgpt", !.chatgptApiKey = apiKey]

\* switchLLM 221-266: the provider is set; its key is asked only if blank.
switchLLM(cfg, llmChoice, apiKey) ==
    IF llmChoice = "1"
    THEN [cfg EXCEPT !.llmProvider = "gemini",
                     !.geminiApiKey = IF Blank(@) THEN apiKey ELSE @]
    ELSE [cfg EXCEPT !.llmProvider = "chatgpt",
                     !.chatgptApiKey = IF Blank(@) THEN apiKey ELSE @]

\* The prompts of switchLLM: the choice, and the key if the config has none.
switchLLMPrompts(cfg, llmChoice, apiKey) ==
    << [q |-> "choice", a |-> llmChoice] >>
        \o (IF Blank(IF llmChoice = "1" THEN cfg.geminiApiKey ELSE cfg.chatgptApiKey)
            THEN << [q |-> "apiKey", a |-> apiKey] >>
            ELSE << >>)

\* Minutes since day 0, 00:00.
Instant(day, hour, minute) == (day * 24 + hour) * 60 + minute

\* nextDay.setDate(nextDay.getDate() + 1) moves the local date; untilDate is
\* the UTC date of the result: the next day, or the same day when the local
\* day is 23 hours long (new Date(dateString) is UTC midnight).
NextDayISO(day) == {day + 1, day}

\* 598-605: --since="<sinceDate> 00:00" --until="<untilDate> 23:59", or the
\* last five commits when no date was given.
gitCommand(w) ==
    IF w.sinceDate # 0 /\ w.untilDate # 0
    THEN [dated |-> TRUE, since |-> Instant(w.sinceDate, 0, 0),
          until |-> Instant(w.untilDate, 23, 59)]
    ELSE [dated |-> FALSE, since |-> 0, until |-> 0]

\* Whether git log with this command can list a commit made at instant t.
Selects(cmd, t) == cmd.dated => (cmd.since <= t /\ t <= cmd.until)

Idle ==
    /\ exitCode = NoExit
    /\ p = 1
    /\ commits = << >>
    /\ c = 1
    /\ ticketId = NoTicketId
    /\ projectCommitDetails = << >>
    /\ projectCommits = << >>
    /\ totalCommitCount = 0
    /\ world = << >>
    /\ lastFetch = NoFetch
    /\ blockerInfo = NoBlocker
    /\ blockerAsked = FALSE
    /\ promptBuilt = FALSE
    /\ promptFile = DefaultPromptFile
    /\ finalPrompt = << >>
    /\ i = 0
    /\ requested = << >>
    /\ replies = << >>
    /\ delays = 0
    /\ lastError = NoError
    /\ llm = NoLlm
    /\ Loaded

Init ==
    /\ pc = "start"
    /\ ticketApi \in TicketApis
    /\ config \in RunConfigs
    /\ trackerActive \in TrackerLists
    /\ Idle

\* main 459-495: config loaded, projects present, API key of the provider set.
Startup ==
    /\ pc = "start"
    /\ IF Len(config.projects) = 0
       THEN pc' = "exited" /\ exitCode' = 1
       ELSE IF llmProvider(config) = "gemini" /\ Blank(config.geminiApiKey)
       THEN pc' = "exited" /\ exitCode' = 1
       ELSE IF llmProvider(config) = "chatgpt" /\ Blank(config.chatgptApiKey)
       THEN pc' = "exited" /\ exitCode' = 1
       ELSE pc' = "date" /\ exitCode' = exitCode
    /\ UNCHANGED << ticketApi, config, p, commits, c, ticketId,
                    projectCommitDetails, projectCommits, totalCommitCount,
                    world, trackerActive, lastFetch, blockerInfo,
                    blockerAsked, promptBuilt, promptFile, finalPrompt, i, requested, replies, delays, lastError, llm, args, configFile,
                    window, layout, prompts, inFlight, issued, zoho >>

\* What of the state the steps before the project loop leave alone.
runVars ==
    << ticketApi, p, commits, c, ticketId, projectCommitDetails,
       projectCommits, totalCommitCount, world, trackerActive, lastFetch,
       blockerInfo, blockerAsked, promptBuilt, finalPrompt, i, requested,
       replies, delays, lastError, llm, inFlight, issued, zoho >>

\* main 497-535: the --date flag. It is looked at only when a token follows
\* it; a token of the wrong shape, or one that is no date, ends the process
\* with code 1; otherwise sinceDate is the day and untilDate the day after.
ParseDate ==
    /\ pc = "date"
    /\ IF args.date.kind \in {"absent", "no_value"}
       THEN pc' = "loop" /\ UNCHANGED << exitCode, window >>
       ELSE IF args.date.kind \in {"malformed", "invalid"}
       THEN pc' = "exited" /\ exitCode' = 1 /\ UNCHANGED window
       ELSE /\ \E untilDate \in NextDayISO(args.date.day) :
                window' = [sinceDate |-> args.date.day, untilDate |-> untilDate]
            /\ pc' = "loop"
            /\ UNCHANGED exitCode
    /\ UNCHANGED << runVars, config, promptFile, args, configFile, layout, prompts >>

\* main 370-378: --setup / -s deletes config.json if it exists.
MainSetupFlag ==
    /\ pc = "cli"
    /\ configFile' = IF args.setup /\ configFile.exists THEN NoConfigFile ELSE configFile
    /\ pc' = "dispatch"
    /\ UNCHANGED << runVars, exitCode, config, promptFile, args, window, layout, prompts >>

\* main 380-384 with addProject 160-173.
MainAddProject ==
    /\ pc = "dispatch"
    /\ args.command = "add-project"
    /\ pc' = "exited"
    /\ IF loadConfig(configFile) = null
       THEN /\ exitCode' = 1
            /\ UNCHANGED << configFile, promptFile, prompts >>
       ELSE \E newProject \in ProjectAnswers :
            LET saved == saveConfig(layout,
                                    [loadConfig(configFile) EXCEPT
                                        !.projects = Append(@, newProject)],
                                    promptFile)
            IN  /\ configFile' = saved.configFile
                /\ promptFile' = saved.promptFile
                /\ prompts' = Append(prompts,
                                     [q |-> "useJira",
                                      a |-> IF newProject.jira THEN "yes" ELSE "no"])
                /\ exitCode' = 0
    /\ UNCHANGED << runVars, config, args, window, layout >>

\* main 386-390 with listProjects 177-198.
MainListProjects ==
    /\ pc = "dispatch"
    /\ args.command = "list-projects"
    /\ pc' = "exited"
    /\ exitCode' = IF loadConfig(configFile) = null THEN 1 ELSE 0
    /\ UNCHANGED << runVars, config, promptFile, args, configFile, window, layout, prompts >>

\* main 392-396 with fetchAllTickets 277-365: the tickets are printed, a
\* failing project is reported and passed over.
MainFetchTickets ==
    /\ pc = "dispatch"
    /\ args.command = "fetch-tickets"
    /\ pc' = "exited"
    /\ exitCode' = IF loadConfig(configFile) = null THEN 1 ELSE 0
    /\ UNCHANGED << runVars, config, promptFile, args, configFile, window, layout, prompts >>

\* main 398-402 with switchLLM 202-272.
MainSwitchLLM ==
    /\ pc = "dispatch"
    /\ args.command = "switch-llm"
    /\ pc' = "exited"
    /\ IF loadConfig(configFile) = null
       THEN /\ exitCode' = 1
            /\ UNCHANGED << configFile, promptFile, prompts >>
       ELSE \E llmChoice \in LlmChoices, apiKey \in TypedKeys :
            LET cfg == loadConfig(configFile)
                saved == saveConfig(layout, switchLLM(cfg, llmChoice, apiKey), promptFile)
            IN  /\ configFile' = saved.configFile
                /\ promptFile' = saved.promptFile
                /\ prompts' = prompts \o switchLLMPrompts(cfg, llmChoice, apiKey)
                /\ exitCode' = 0
    /\ UNCHANGED << runVars, config, args, window, layout >>

\* main 404-457: --help prints the usage.
MainHelp ==
    /\ pc = "dispatch"
    /\ args.command = "help"
    /\ pc' = "exited"
    /\ exitCode' = 0
    /\ UNCHANGED << runVars, config, promptFile, args, configFile, window, layout, prompts >>

\* main 459-468: the config is loaded; without one the setup wizard runs,
\* saves what it was told and hands it to the run.
MainLoadConfig ==
    /\ pc = "dispatch"
    /\ args.command = "report"
    /\ pc' = "start"
    /\ IF loadConfig(configFile) = null
       THEN \E author \in Authors, llmChoice \in LlmChoices,
               apiKey \in TypedKeys, firstProject \in ProjectAnswers :
            LET saved == saveConfig(layout,
                                    setupConfig(author, llmChoice, apiKey, firstProject),
                                    promptFile)
            IN  /\ config' = saved.configFile.body
                /\ configFile' = saved.configFile
                /\ promptFile' = saved.promptFile
                /\ prompts' = prompts \o << [q |-> "author", a |-> author],
                                            [q |-> "choice", a |-> llmChoice],
                                            [q |-> "apiKey", a |-> apiKey],
                                            [q |-> "useJira",
                                             a |-> IF firstProject.jira THEN "yes" ELSE "no"] >>
       ELSE /\ config' = loadConfig(configFile)
            /\ UNCHANGED << configFile, promptFile, prompts >>
    /\ UNCHANGED << runVars, exitCode, args, window, layout >>

\* main 594-634: one project's git log; a failure or an empty log ends the
\* iteration, otherwise the commits are counted and the commit loop starts.
ScanProject ==
    /\ pc = "loop"
    /\ p <= Len(config.projects)
    /\ \E scan \in ScanResults :
        /\ world' = Append(world, [commits |-> Len(scan.log),
                                   scanFailed |-> scan.failed, listed |-> 0])
        /\ IF scan.failed \/ Len(scan.log) = 0
           THEN /\ p' = p + 1
                /\ UNCHANGED << pc, commits, c, totalCommitCount >>
           ELSE /\ totalCommitCount' = totalCommitCount + Len(scan.log)
                /\ commits' = scan.log
                /\ c' = 1
                /\ pc' = "commits"
                /\ p' = p
    /\ projectCommitDetails' = << >>
    /\ lastFetch' = NoFetch
    /\ UNCHANGED << exitCode, ticketApi, config, ticketId, projectCommits,
                    trackerActive, blockerInfo, blockerAsked,
                    promptBuilt, promptFile, finalPrompt, i, requested, replies, delays, lastError, llm, args, configFile,
                    window, layout, prompts, inFlight, issued, zoho >>

\* const jiraConfig = project.jira ? {...config, taskManagementSystem: "jira"} : config
jiraConfigSystem(cfg, project) ==
    IF project.jira THEN "jira" ELSE cfg.taskManagementSystem

\* main 639-697: one commit: extract the ticket id, await
\* fetchTicketDescription, push the display row.
ProcessCommit ==
    /\ pc = "commits"
    /\ c <= Len(commits)
    /\ \E outcome \in TrackerOutcomes :
        LET id == ExtractTicketId(commits[c], Patterns(config.customTicketPatterns))
            system == jiraConfigSystem(config, config.projects[p])
            r == fetchTicketDescription(ticketApi, id, system, outcome)
            row == [commit |-> commits[c], ticketId |-> id,
                    annotated |-> (r.result = "ticket")]
        IN  /\ ticketId' = id
            /\ lastFetch' = [id |-> id, system |-> system,
                             outcome |-> IF r.requests = 0 THEN "" ELSE outcome,
                             result |-> r.result, requests |-> r.requests]
            /\ IF r.result = "crash"
               THEN /\ pc' = "exited"
                    /\ exitCode' = 1
                    /\ UNCHANGED << p, c, commits, projectCommitDetails >>
               ELSE IF r.result = "throw"
               THEN \* caught by the catch of the project's try (739-741)
                    /\ pc' = "loop"
                    /\ p' = p + 1
                    /\ commits' = << >>
                    /\ c' = 1
                    /\ projectCommitDetails' = << >>
                    /\ UNCHANGED exitCode
               ELSE /\ projectCommitDetails' = Append(projectCommitDetails, row)
                    /\ c' = c + 1
                    /\ pc' = IF c = Len(commits) THEN "tickets" ELSE "commits"
                    /\ UNCHANGED << p, commits, exitCode >>
    /\ UNCHANGED << ticketApi, config, projectCommits, totalCommitCount, world,
                    trackerActive, blockerInfo, blockerAsked, promptBuilt, promptFile, finalPrompt, i,
                    requested, replies, delays, lastError, llm, args, configFile,
                    window, layout, prompts, inFlight, issued, zoho >>

(***************************************************************************)
(* fetchAllJiraTickets: the priority sort of the tickets the tracker       *)
(* returned (ticket-api.js 368-381, jira.js 188-201).                      *)
(***************************************************************************)
\* const priorityOrder = { Highest: 1, High: 2, Medium: 3, Low: 4, None: 5 }
priorityOrder ==
    [name \in {"Highest", "High", "Medium", "Low", "None"} |->
        CASE name = "Highest" -> 1
          [] name = "High" -> 2
          [] name = "Medium" -> 3
          [] name = "Low" -> 4
          [] name = "None" -> 5]

\* Property names every object literal inherits from Object.prototype; the
\* value found under such a name is a function or an object, never a number.
InheritedNames == {"constructor", "toString"}

\* Priority names a tracker may return.
PriorityNames == DOMAIN priorityOrder \cup {"Blocker"} \cup InheritedNames

\* priorityOrder[ticket.priority] || 999, as [number, value]: a name that is
\* no key at all gives undefined and so 999; an inherited name gives a truthy
\* value that is no number.
PriorityOf(name) ==
    IF name \in DOMAIN priorityOrder THEN [number |-> TRUE, value |-> priorityOrder[name]]
    ELSE IF name \in InheritedNames THEN [number |-> FALSE, value |-> 0]
    ELSE [number |-> TRUE, value |-> 999]

\* The comparator (a, b) => priorityA - priorityB says "a before b": the
\* difference is a number below 0.  A difference with a non-number is NaN,
\* which is not below 0.
ComparatorLess(a, b) ==
    LET pa == PriorityOf(a.priority)
        pb == PriorityOf(b.priority)
    IN  pa.number /\ pb.number /\ pa.value - pb.value < 0

\* Array.prototype.sort on a short array: each element in turn is moved left
\* past the elements the comparator puts it before (a stable insertion).
RECURSIVE InsertTicket(_, _)
InsertTicket(sorted, t) ==
    IF sorted = << >> THEN << t >>
    ELSE IF ComparatorLess(t, sorted[Len(sorted)])
         THEN Append(InsertTicket(SubSeq(sorted, 1, Len(sorted) - 1), t),
                     sorted[Len(sorted)])
         ELSE Append(sorted, t)

RECURSIVE SortFrom(_, _, _)
SortFrom(tickets, k, sorted) ==
    IF k > Len(tickets) THEN sorted
    ELSE SortFrom(tickets, k + 1, InsertTicket(sorted, tickets[k]))

\* tickets.sort(...); return tickets
fetchAllJiraTickets(tracker) == SortFrom(tracker, 1, << >>)

\* if (activeTickets.length > 0)
BundleKeptOnlyWithTickets(rows, activeTickets) == Len(activeTickets) > 0

\* if (projectCommitDetails.length > 0 || activeTickets.length > 0)
BundleKept(rows, activeTickets) == Len(rows) > 0 \/ Len(activeTickets) > 0

\* main 699-737: the active tickets of the project (only reached when the
\* project has commits), then the bundle is pushed.
FetchActiveTickets ==
    /\ pc = "tickets"
    /\ \E ok \in (IF config.projects[p].jira THEN BOOLEAN ELSE {FALSE}) :
        LET activeTickets == IF ok THEN fetchAllJiraTickets(trackerActive) ELSE << >>
        IN  /\ world' = [world EXCEPT ![p].listed =
                            IF config.projects[p].jira THEN @ + 1 ELSE @]
            /\ projectCommits' =
                 IF BundleKept(projectCommitDetails, activeTickets)
                 THEN Append(projectCommits,
                             [projectName |-> p, commits |-> projectCommitDetails,
                              activeTickets |-> activeTickets])
                 ELSE projectCommits
    /\ p' = p + 1
    /\ pc' = "loop"
    /\ commits' = << >>
    /\ c' = 1
    /\ projectCommitDetails' = << >>
    /\ ticketId' = NoTicketId
    /\ lastFetch' = NoFetch
    /\ UNCHANGED << exitCode, ticketApi, config, totalCommitCount,
                    trackerActive, blockerInfo, blockerAsked, promptBuilt, promptFile, finalPrompt, i,
                    requested, replies, delays, lastError, llm, args, configFile,
                    window, layout, prompts, inFlight, issued, zoho >>

NoCommitsNever(total) == FALSE

\* if (totalCommitCount === 0)
NoCommits(total) == total = 0

\* main 744-748: after the loop, exit 0 when no commit was found.
AfterLoop ==
    /\ pc = "loop"
    /\ p > Len(config.projects)
    /\ IF NoCommits(totalCommitCount)
       THEN pc' = "exited" /\ exitCode' = 0
       ELSE pc' = "blocker" /\ exitCode' = exitCode
    /\ lastFetch' = NoFetch
    /\ ticketId' = NoTicketId
    /\ UNCHANGED << ticketApi, config, p, commits, c, projectCommitDetails,
                    projectCommits, totalCommitCount, world, trackerActive,
                    blockerInfo, blockerAsked, promptBuilt, promptFile, finalPrompt, i,
                    requested, replies, delays, lastError, llm, args, configFile,
                    window, layout, prompts, inFlight, issued, zoho >>

\* main 752-802: the blocker text, from --blocker/-b or from the prompt.
BlockerModes == {"flag_text", "flag_bare", "prompt_yes", "prompt_no"}

BlockerStep ==
    /\ pc = "blocker"
    /\ \E mode \in BlockerModes :
        blockerInfo' = IF mode \in {"flag_text", "prompt_yes"} THEN << "b" >> ELSE NoBlocker
    /\ blockerAsked' = TRUE
    /\ pc' = "llm"
    /\ UNCHANGED << exitCode, ticketApi, config, p, commits, c, ticketId,
                    projectCommitDetails, projectCommits, totalCommitCount,
                    world, trackerActive, lastFetch, promptBuilt, promptFile, finalPrompt,
                    i, requested, replies, delays, lastError, llm, args, configFile,
                    window, layout, prompts, inFlight, issued, zoho >>

\* main 807-838: await summarizeWithLLM(...) as one call, the try/catch
\* around it, and the closing lines; then the async function returns and the
\* process ends with code 0.
SummarizeWithLLM ==
    /\ pc = "llm"
    /\ \E end \in (IF llmProvider(config) = "gemini" THEN GeminiRunEnds
                   ELSE IF llmProvider(config) = "chatgpt" THEN ChatGPTRunEnds
                   ELSE {[status |-> "threw", detail |-> "unknown_provider"]}) :
        /\ llm' = end
        /\ promptBuilt' = (llmProvider(config) \in {"gemini", "chatgpt"})
        /\ finalPrompt' = IF llmProvider(config) \in {"gemini", "chatgpt"}
                          THEN FinalPrompt(loadPromptTemplate(promptFile),
                                           ProjectDataText(projectCommits),
                                           blockerInfo)
                          ELSE finalPrompt
        /\ IF end.status = "threw"
           THEN pc' = OnSummaryError.pc /\ exitCode' = OnSummaryError.exitCode
           ELSE pc' = "exited" /\ exitCode' = 0
    /\ UNCHANGED << ticketApi, config, p, commits, c, ticketId,
                    projectCommitDetails, projectCommits, totalCommitCount,
                    world, trackerActive, promptFile, lastFetch, blockerInfo,
                    blockerAsked, i, requested, replies, delays, lastError, args, configFile,
                    window, layout, prompts, inFlight, issued, zoho >>

Next ==
    \/ Startup
    \/ ParseDate
    \/ ScanProject
    \/ ProcessCommit
    \/ FetchActiveTickets
    \/ AfterLoop
    \/ BlockerStep
    \/ SummarizeWithLLM

Spec == Init /\ [][Next]_vars

(***************************************************************************)
(* The summarizer call rung by rung: summarizeWithLLM entered from the LLM *)
(* step of a run that found one commit, every request outcome possible.    *)
(***************************************************************************)
LadderProviders == {"gemini", "chatgpt", "missing", "claude"}

LadderConfigs ==
    { [llmProvider |-> lp,
       geminiApiKey |-> IF lp \in {"gemini", "missing"} THEN "key" ELSE "missing",
       chatgptApiKey |-> IF lp = "chatgpt" THEN "key" ELSE "missing",
       taskManagementSystem |-> "missing",
       projects |-> << [jira |-> FALSE] >>,
       customTicketPatterns |-> << >>] : lp \in LadderProviders }

InitLadder ==
    /\ pc = "llm"
    /\ exitCode = NoExit
    /\ ticketApi = "ticket-api-2"
    /\ config \in LadderConfigs
    /\ trackerActive = << >>
    /\ p = 2
    /\ commits = << >>
    /\ c = 1
    /\ ticketId = NoTicketId
    /\ projectCommitDetails = << >>
    /\ projectCommits =
         << [projectName |-> 1,
             commits |-> << [commit |-> TicketLine,
                             ticketId |-> ExtractTicketId(TicketLine, Patterns(<< >>)),
                             annotated |-> FALSE] >>,
             activeTickets |-> << >>] >>
    /\ totalCommitCount = 1
    /\ world = << [commits |-> 1, scanFailed |-> FALSE, listed |-> 0] >>
    /\ lastFetch = NoFetch
    /\ blockerInfo \in {NoBlocker, << "b" >>}
    /\ blockerAsked = TRUE
    /\ promptBuilt = FALSE
    /\ promptFile = DefaultPromptFile
    /\ finalPrompt = << >>
    /\ i = 0
    /\ requested = << >>
    /\ replies = << >>
    /\ delays = 0
    /\ lastError = NoError
    /\ llm = NoLlm
    /\ Loaded

NextLadder ==
    \/ SummarizeStart
    \/ LadderRung(AllRungOutcomes)

SpecLadder == InitLadder /\ [][NextLadder]_vars

\* Every awaited request settles, so the step that is enabled is taken.
SpecLadderFair == SpecLadder /\ WF_vars(NextLadder)

(***************************************************************************)
(* Ticket-id extraction on its own: one commit line and one list of custom *)
(* patterns, then the extraction of git-log.js 639-648.  The text          *)
(* "No ticket ID" is one symbol of the alphabet of commit lines.           *)
(***************************************************************************)
Alphabet == {"A", "1", "-", "#", "No ticket ID"}

Lines == UNION {[1..n -> Alphabet] : n \in 0..MaxLineLen}

\* customTicketPatterns of a config: the choices above and "No ticket ID".
ExtractPatternChoices == CustomPatternChoices \cup { << Atom({"No ticket ID"}, "one") >> }

CustomLists == UNION {[1..n -> ExtractPatternChoices] : n \in 0..MaxCustom}

\* The ticket ids README.md documents as recognized (Supported Ticket
\* Formats): PROJ-123, M3-3633, AY1Q-T296.
DocumentedIds ==
    { << "P", "R", "O", "J", "-", "1", "2", "3" >>,
      << "M", "3", "-", "3", "6", "3", "3" >>,
      << "A", "Y", "1", "Q", "-", "T", "2", "9", "6" >> }

\* `git log --oneline` lines carrying a documented id: abbreviated hash,
\* then the subject with the id at its start or after a word.
DocumentedLines ==
    { << "a", "1", " " >> \o before \o id \o after :
        id \in DocumentedIds,
        before \in {<< >>, << "f", " " >>},
        after \in {<< >>, << " ", "f" >>, << ":", " ", "f" >>} }

InitExtract ==
    /\ pc = "extract"
    /\ ticketApi = "ticket-api-2"
    /\ \E custom \in CustomLists :
        config = [llmProvider |-> "gemini", geminiApiKey |-> "key",
                  chatgptApiKey |-> "missing", taskManagementSystem |-> "missing",
                  projects |-> << [jira |-> FALSE] >>,
                  customTicketPatterns |-> custom]
    /\ trackerActive = << >>
    /\ \E line \in Lines \cup DocumentedLines : commits = << line >>
    /\ exitCode = NoExit
    /\ p = 1
    /\ c = 1
    /\ ticketId = NoTicketId
    /\ projectCommitDetails = << >>
    /\ projectCommits = << >>
    /\ totalCommitCount = 1
    /\ world = << [commits |-> 1, scanFailed |-> FALSE, listed |-> 0] >>
    /\ lastFetch = NoFetch
    /\ blockerInfo = NoBlocker
    /\ blockerAsked = FALSE
    /\ promptBuilt = FALSE
    /\ promptFile = DefaultPromptFile
    /\ finalPrompt = << >>
    /\ i = 0
    /\ requested = << >>
    /\ replies = << >>
    /\ delays = 0
    /\ lastError = NoError
    /\ llm = NoLlm
    /\ Loaded

\* main 640-648: the extraction of the ticket id of commits[c].
ExtractStep ==
    /\ pc = "extract"
    /\ ticketId' = ExtractTicketId(commits[c], Patterns(config.customTicketPatterns))
    /\ pc' = "extracted"
    /\ UNCHANGED << exitCode, ticketApi, config, p, commits, c,
                    projectCommitDetails, projectCommits, totalCommitCount,
                    world, trackerActive, lastFetch, blockerInfo, blockerAsked,
                    promptBuilt, promptFile, finalPrompt, i, requested, replies, delays, lastError, llm, args, configFile,
                    window, layout, prompts, inFlight, issued, zoho >>

NextExtract == ExtractStep

SpecExtract == InitExtract /\ [][NextExtract]_vars

(***************************************************************************)
(* fetchTicketDescription on its own: one call for every loaded            *)
(* definition, ticket id, configured tracker type and tracker outcome.     *)
(***************************************************************************)
TrackerTypes == {"missing", "", "jira", "Jira", "JIRA", "zoho", "Zoho", "trello"}

FetchIds == {NoTicketId, << "P", "-", "1" >>}

InitFetch ==
    /\ pc = "fetch"
    /\ ticketApi \in TicketApis
    /\ \E tms \in TrackerTypes :
        config = [llmProvider |-> "gemini", geminiApiKey |-> "key",
                  chatgptApiKey |-> "missing", taskManagementSystem |-> tms,
                  projects |-> << [jira |-> FALSE] >>,
                  customTicketPatterns |-> << >>]
    /\ trackerActive = << >>
    /\ ticketId \in FetchIds
    /\ commits = << >>
    /\ exitCode = NoExit
    /\ p = 1
    /\ c = 1
    /\ projectCommitDetails = << >>
    /\ projectCommits = << >>
    /\ totalCommitCount = 0
    /\ world = << >>
    /\ lastFetch = NoFetch
    /\ blockerInfo = NoBlocker
    /\ blockerAsked = FALSE
    /\ promptBuilt = FALSE
    /\ promptFile = DefaultPromptFile
    /\ finalPrompt = << >>
    /\ i = 0
    /\ requested = << >>
    /\ replies = << >>
    /\ delays = 0
    /\ lastError = NoError
    /\ llm = NoLlm
    /\ Loaded

\* await fetchTicketDescription(ticketId, config)
FetchCall ==
    /\ pc = "fetch"
    /\ \E outcome \in TrackerOutcomes :
        LET r == fetchTicketDescription(ticketApi, ticketId,
                                        config.taskManagementSystem, outcome)
        IN  lastFetch' = [id |-> ticketId, system |-> config.taskManagementSystem,
                          outcome |-> IF r.requests = 0 THEN "" ELSE outcome,
                          result |-> r.result, requests |-> r.requests]
    /\ pc' = "fetched"
    /\ UNCHANGED << exitCode, ticketApi, config, p, commits, c, ticketId,
                    projectCommitDetails, projectCommits, totalCommitCount,
                    world, trackerActive, blockerInfo, blockerAsked,
                    promptBuilt, promptFile, finalPrompt, i, requested, replies, delays, lastError, llm, args, configFile,
                    window, layout, prompts, inFlight, issued, zoho >>

NextFetch == FetchCall

SpecFetch == InitFetch /\ [][NextFetch]_vars

(***************************************************************************)
(* The active-ticket listing on its own: a project with tracker            *)
(* credentials whose one commit has been processed, and every list of      *)
(* tickets the tracker may return.                                         *)
(***************************************************************************)
TicketLists ==
    UNION { {[k \in 1..n |-> [key |-> k, priority |-> names[k]]] :
                names \in [1..n -> PriorityNames]} : n \in 0..MaxTickets }

InitSort ==
    /\ pc = "tickets"
    /\ exitCode = NoExit
    /\ ticketApi = "ticket-api-2"
    /\ config = [llmProvider |-> "gemini", geminiApiKey |-> "key",
                 chatgptApiKey |-> "missing", taskManagementSystem |-> "missing",
                 projects |-> << [jira |-> TRUE] >>,
                 customTicketPatterns |-> << >>]
    /\ trackerActive \in TicketLists
    /\ p = 1
    /\ commits = CommitLog(1)
    /\ c = 2
    /\ ticketId = ExtractTicketId(TicketLine, Patterns(<< >>))
    /\ projectCommitDetails =
         << [commit |-> TicketLine,
             ticketId |-> ExtractTicketId(TicketLine, Patterns(<< >>)),
             annotated |-> FALSE] >>
    /\ projectCommits = << >>
    /\ totalCommitCount = 1
    /\ world = << [commits |-> 1, scanFailed |-> FALSE, listed |-> 0] >>
    /\ lastFetch = [id |-> ExtractTicketId(TicketLine, Patterns(<< >>)),
                    system |-> "jira", outcome |-> "http_fail",
                    result |-> "null", requests |-> 1]
    /\ blockerInfo = NoBlocker
    /\ blockerAsked = FALSE
    /\ promptBuilt = FALSE
    /\ promptFile = DefaultPromptFile
    /\ finalPrompt = << >>
    /\ i = 0
    /\ requested = << >>
    /\ replies = << >>
    /\ delays = 0
    /\ lastError = NoError
    /\ llm = NoLlm
    /\ Loaded

NextSort == FetchActiveTickets

SpecSort == InitSort /\ [][NextSort]_vars

(***************************************************************************)
(* The prompt rendering on its own: summarizeWithLLM entered with every    *)
(* prompt template file, commit text and blocker text.                     *)
(***************************************************************************)
Templates == UNION {[1..n -> {"t", "{PROJECT_DATA}", "{BLOCKERS}"}] : n \in 0..MaxTemplateLen}

PromptFiles ==
    {[exists |-> FALSE, body |-> << >>]} \cup {[exists |-> TRUE, body |-> t] : t \in Templates}

\* Commit lines as text of the project data.
RenderLines ==
    UNION {[1..n -> {"d", "{PROJECT_DATA}", "{BLOCKERS}", "$&"}] : n \in 1..2}

\* Blocker texts: "None", or what the user typed.
RenderBlockers ==
    {NoBlocker, << "b" >>, << "{PROJECT_DATA}" >>, << "{BLOCKERS}" >>, << "$&" >>}

InitRender ==
    /\ pc = "llm"
    /\ exitCode = NoExit
    /\ ticketApi = "ticket-api-2"
    /\ config \in {cfg \in LadderConfigs : cfg.llmProvider \in {"gemini", "chatgpt"}}
    /\ trackerActive = << >>
    /\ p = 2
    /\ commits = << >>
    /\ c = 1
    /\ ticketId = NoTicketId
    /\ projectCommitDetails = << >>
    /\ \E line \in RenderLines :
        projectCommits =
            << [projectName |-> 1,
                commits |-> << [commit |-> line,
                                ticketId |-> ExtractTicketId(line, Patterns(<< >>)),
                                annotated |-> FALSE] >>,
                activeTickets |-> << >>] >>
    /\ totalCommitCount = 1
    /\ world = << [commits |-> 1, scanFailed |-> FALSE, listed |-> 0] >>
    /\ lastFetch = NoFetch
    /\ blockerInfo \in RenderBlockers
    /\ blockerAsked = TRUE
    /\ promptBuilt = FALSE
    /\ promptFile \in PromptFiles
    /\ finalPrompt = << >>
    /\ i = 0
    /\ requested = << >>
    /\ replies = << >>
    /\ delays = 0
    /\ lastError = NoError
    /\ llm = NoLlm
    /\ Loaded

NextRender == SummarizeStart

SpecRender == InitRender /\ [][NextRender]_vars

(***************************************************************************)
(* The whole invocation: main of git-log.js from its first line, with      *)
(* every flag combination, with and without a config.json.                 *)
(***************************************************************************)
\* Project lists of the config.json the invocation finds.
CliProjectLists == {<< >>, << [jira |-> FALSE] >>, << [jira |-> TRUE] >>}

CliConfigs ==
    { [author |-> a, llmProvider |-> lp, geminiApiKey |-> gk, chatgptApiKey |-> ck,
       taskManagementSystem |-> "missing", projects |-> ps,
       customTicketPatterns |-> << >>] :
        a \in Authors, lp \in {"gemini", "chatgpt"}, gk \in KeyValues,
        ck \in KeyValues, ps \in CliProjectLists }

ConfigFiles == {NoConfigFile} \cup {[exists |-> TRUE, body |-> cfg] : cfg \in CliConfigs}

\* custom-prompt.txt: absent, as created, or edited by the user.
CliPromptFiles ==
    {[exists |-> FALSE, body |-> << >>], DefaultPromptFile,
     [exists |-> TRUE, body |-> << "t", "{PROJECT_DATA}" >>]}

InitCli ==
    /\ pc = "cli"
    /\ exitCode = NoExit
    /\ ticketApi = "ticket-api-2"
    /\ config = null
    /\ trackerActive = << >>
    /\ p = 1
    /\ commits = << >>
    /\ c = 1
    /\ ticketId = NoTicketId
    /\ projectCommitDetails = << >>
    /\ projectCommits = << >>
    /\ totalCommitCount = 0
    /\ world = << >>
    /\ lastFetch = NoFetch
    /\ blockerInfo = NoBlocker
    /\ blockerAsked = FALSE
    /\ promptBuilt = FALSE
    /\ promptFile \in CliPromptFiles
    /\ finalPrompt = << >>
    /\ i = 0
    /\ requested = << >>
    /\ replies = << >>
    /\ delays = 0
    /\ lastError = NoError
    /\ llm = NoLlm
    /\ args \in ArgLists
    /\ configFile \in ConfigFiles
    /\ window = NoWindow
    /\ layout = "root"
    /\ prompts = << >>
    /\ inFlight = {}
    /\ issued = << >>
    /\ zoho = NoZoho

NextCli ==
    \/ MainSetupFlag
    \/ MainAddProject
    \/ MainListProjects
    \/ MainFetchTickets
    \/ MainSwitchLLM
    \/ MainHelp
    \/ MainLoadConfig
    \/ Next

SpecCli == InitCli /\ [][NextCli]_vars

(***************************************************************************)
(* saveConfig on its own, as git-log.js and as src/config.js define it.    *)
(***************************************************************************)
Layouts == {"root", "modular"}

InitSave ==
    /\ pc = "save"
    /\ exitCode = NoExit
    /\ ticketApi = "ticket-api-2"
    /\ config \in CliConfigs
    /\ trackerActive = << >>
    /\ p = 1
    /\ commits = << >>
    /\ c = 1
    /\ ticketId = NoTicketId
    /\ projectCommitDetails = << >>
    /\ projectCommits = << >>
    /\ totalCommitCount = 0
    /\ world = << >>
    /\ lastFetch = NoFetch
    /\ blockerInfo = NoBlocker
    /\ blockerAsked = FALSE
    /\ promptBuilt = FALSE
    /\ promptFile \in CliPromptFiles
    /\ finalPrompt = << >>
    /\ i = 0
    /\ requested = << >>
    /\ replies = << >>
    /\ delays = 0
    /\ lastError = NoError
    /\ llm = NoLlm
    /\ args = NoArgs
    /\ configFile \in {NoConfigFile, [exists |-> TRUE, body |-> config]}
    /\ window = NoWindow
    /\ layout \in Layouts
    /\ prompts = << >>
    /\ inFlight = {}
    /\ issued = << >>
    /\ zoho = NoZoho

\* saveConfig(config): git-log.js 42-52, src/config.js 20-30.
SaveConfig ==
    /\ pc = "save"
    /\ LET saved == saveConfig(layout, config, promptFile)
       IN  /\ configFile' = saved.configFile
           /\ promptFile' = saved.promptFile
    /\ pc' = "saved"
    /\ UNCHANGED << runVars, exitCode, config, args, window, layout, prompts >>

NextSave == SaveConfig

SpecSave == InitSave /\ [][NextSave]_vars

(***************************************************************************)
(* The network schedule of the report run: each awaited network call of    *)
(* main and of the ladders as two steps, the request being issued and the  *)
(* caller resuming once it has settled.                                    *)
(***************************************************************************)
\* A call that is not awaited: the code after it runs at once.
fireAndForget(request, pending) == TRUE

\* `await call`: the code after it runs once the request has settled.
await(request, pending) == request \notin pending

\* The request of a call: the single-ticket fetch of commit c of project p,
\* the lister of project p, or rung i of the ladder.
TicketRequest == [kind |-> "ticket", project |-> p, commit |-> c, rung |-> 0]
ListerRequest == [kind |-> "lister", project |-> p, commit |-> 0, rung |-> 0]
LlmRequest == [kind |-> "llm", project |-> 0, commit |-> 0, rung |-> i]

\* The last request issued has settled, or none was issued for this call.
Resumable(request) == request \in inFlight => await(request, inFlight)

\* A response or a network error arrives: the request settles.
IoSettle ==
    /\ \E request \in inFlight : inFlight' = inFlight \ {request}
    /\ UNCHANGED << pc, exitCode, ticketApi, config, p, commits, c, ticketId,
                    projectCommitDetails, projectCommits, totalCommitCount,
                    world, trackerActive, lastFetch, blockerInfo, blockerAsked,
                    promptBuilt, promptFile, finalPrompt, i, requested, replies,
                    delays, lastError, llm, args, configFile, window, layout,
                    prompts, issued, zoho >>

\* main 639-664: the ticket id of the commit, and the call of
\* fetchTicketDescription, which sends a request when the id and the tracker
\* type allow it.
IoIssueFetch ==
    /\ pc = "commits"
    /\ c <= Len(commits)
    /\ LET id == ExtractTicketId(commits[c], Patterns(config.customTicketPatterns))
           system == jiraConfigSystem(config, config.projects[p])
       IN  /\ ticketId' = id
           /\ IF fetchTicketDescription(ticketApi, id, system, "ok").requests = 1
              THEN /\ inFlight' = inFlight \cup {TicketRequest}
                   /\ issued' = Append(issued, TicketRequest)
              ELSE UNCHANGED << inFlight, issued >>
    /\ pc' = "await_fetch"
    /\ UNCHANGED << exitCode, ticketApi, config, p, commits, c,
                    projectCommitDetails, projectCommits, totalCommitCount,
                    world, trackerActive, lastFetch, blockerInfo, blockerAsked,
                    promptBuilt, promptFile, finalPrompt, i, requested, replies,
                    delays, lastError, llm, args, configFile, window, layout,
                    prompts, zoho >>

\* main 661-697: the code after `await fetchTicketDescription(...)`.
IoResumeFetch ==
    /\ pc = "await_fetch"
    /\ Resumable(TicketRequest)
    /\ \E outcome \in TrackerOutcomes :
        LET system == jiraConfigSystem(config, config.projects[p])
            r == fetchTicketDescription(ticketApi, ticketId, system, outcome)
            row == [commit |-> commits[c], ticketId |-> ticketId,
                    annotated |-> (r.result = "ticket")]
        IN  /\ lastFetch' = [id |-> ticketId, system |-> system,
                             outcome |-> IF r.requests = 0 THEN "" ELSE outcome,
                             result |-> r.result, requests |-> r.requests]
            /\ IF r.result = "crash"
               THEN /\ pc' = "exited"
                    /\ exitCode' = 1
                    /\ UNCHANGED << p, c, commits, projectCommitDetails >>
               ELSE IF r.result = "throw"
               THEN /\ pc' = "loop"
                    /\ p' = p + 1
                    /\ commits' = << >>
                    /\ c' = 1
                    /\ projectCommitDetails' = << >>
                    /\ UNCHANGED exitCode
               ELSE /\ projectCommitDetails' = Append(projectCommitDetails, row)
                    /\ c' = c + 1
                    /\ pc' = IF c = Len(commits) THEN "tickets" ELSE "commits"
                    /\ UNCHANGED << p, commits, exitCode >>
    /\ UNCHANGED << ticketApi, config, ticketId, projectCommits, totalCommitCount,
                    world, trackerActive, blockerInfo, blockerAsked, promptBuilt,
                    promptFile, finalPrompt, i, requested, replies, delays,
                    lastError, llm, args, configFile, window, layout, prompts,
                    inFlight, issued, zoho >>

\* main 699-709: the call of fetchAllJiraTickets for a project with Jira
\* credentials.
IoIssueLister ==
    /\ pc = "tickets"
    /\ IF config.projects[p].jira
       THEN /\ inFlight' = inFlight \cup {ListerRequest}
            /\ issued' = Append(issued, ListerRequest)
       ELSE UNCHANGED << inFlight, issued >>
    /\ pc' = "await_lister"
    /\ UNCHANGED << exitCode, ticketApi, config, p, commits, c, ticketId,
                    projectCommitDetails, projectCommits, totalCommitCount,
                    world, trackerActive, lastFetch, blockerInfo, blockerAsked,
                    promptBuilt, promptFile, finalPrompt, i, requested, replies,
                    delays, lastError, llm, args, configFile, window, layout,
                    prompts, zoho >>

\* main 706-737: the code after `await fetchAllJiraTickets(...)`, and the
\* push of the bundle.
IoResumeLister ==
    /\ pc = "await_lister"
    /\ Resumable(ListerRequest)
    /\ \E ok \in (IF config.projects[p].jira THEN BOOLEAN ELSE {FALSE}) :
        LET activeTickets == IF ok THEN fetchAllJiraTickets(trackerActive) ELSE << >>
        IN  /\ world' = [world EXCEPT ![p].listed =
                            IF config.projects[p].jira THEN @ + 1 ELSE @]
            /\ projectCommits' =
                 IF BundleKept(projectCommitDetails, activeTickets)
                 THEN Append(projectCommits,
                             [projectName |-> p, commits |-> projectCommitDetails,
                              activeTickets |-> activeTickets])
                 ELSE projectCommits
    /\ p' = p + 1
    /\ pc' = "loop"
    /\ commits' = << >>
    /\ c' = 1
    /\ projectCommitDetails' = << >>
    /\ ticketId' = NoTicketId
    /\ lastFetch' = NoFetch
    /\ UNCHANGED << exitCode, ticketApi, config, totalCommitCount, trackerActive,
                    blockerInfo, blockerAsked, promptBuilt, promptFile,
                    finalPrompt, i, requested, replies, delays, lastError, llm,
                    args, configFile, window, layout, prompts, inFlight, issued,
                    zoho >>

\* The call of callGeminiAPI / callChatGPTAPI of iteration i of the ladder.
IoIssueRung ==
    /\ pc = "ladder"
    /\ i < Len(retrySequence(llmProvider(config)))
    /\ inFlight' = inFlight \cup {LlmRequest}
    /\ issued' = Append(issued, LlmRequest)
    /\ requested' = Append(requested, RequestedModel(llmProvider(config), i))
    /\ pc' = "await_rung"
    /\ UNCHANGED << exitCode, ticketApi, config, p, commits, c, ticketId,
                    projectCommitDetails, projectCommits, totalCommitCount,
                    world, trackerActive, lastFetch, blockerInfo, blockerAsked,
                    promptBuilt, promptFile, finalPrompt, i, replies, delays,
                    lastError, llm, args, configFile, window, layout, prompts,
                    zoho >>

\* The code of the ladder after `await callGeminiAPI(...)` /
\* `await callChatGPTAPI(...)`, as in LadderRung; the log of this schedule is
\* `issued`, so the responses are not logged a second time in `replies`.
IoResumeRung ==
    /\ pc = "await_rung"
    /\ Resumable(LlmRequest)
    /\ \E outcome \in RunRungOutcomes :
        LET provider == llmProvider(config)
            r == RungResult(provider, i, outcome)
            err == IF outcome.kind = "error" THEN outcome.error ELSE lastError
        IN  /\ delays' = IF r = "delay_next" THEN delays + 1 ELSE delays
            /\ lastError' = err
            /\ IF r = "return"
               THEN /\ llm' = [status |-> "summary", detail |-> ""]
                    /\ pc' = "exited"
                    /\ exitCode' = 0
                    /\ UNCHANGED i
               ELSE IF r \in {"next", "delay_next"}
               THEN /\ i' = i + 1
                    /\ pc' = "ladder"
                    /\ UNCHANGED << llm, exitCode >>
               ELSE /\ llm' = [status |-> "threw",
                               detail |-> IF r = "exhausted" /\ err = NoError
                                          THEN "no_response" ELSE r]
                    /\ pc' = OnSummaryError.pc
                    /\ exitCode' = OnSummaryError.exitCode
                    /\ i' = IF r = "exhausted" THEN i + 1 ELSE i
    /\ UNCHANGED << ticketApi, config, p, commits, c, ticketId,
                    projectCommitDetails, projectCommits, totalCommitCount,
                    world, trackerActive, lastFetch, blockerInfo, blockerAsked,
                    promptBuilt, promptFile, finalPrompt, requested, replies, args,
                    configFile, window, layout, prompts, inFlight, issued,
                    zoho >>

\* A run whose config.json names the key of the selected provider and whose
\* tracker has an active ticket: the runs that reach every network call.
InitIO ==
    /\ Init
    /\ trackerActive # << >>
    /\ "key" \in {config.geminiApiKey, config.chatgptApiKey}

NextIO ==
    \/ Startup
    \/ ParseDate
    \/ ScanProject
    \/ IoIssueFetch
    \/ IoResumeFetch
    \/ IoIssueLister
    \/ IoResumeLister
    \/ AfterLoop
    \/ BlockerStep
    \/ SummarizeStart
    \/ IoIssueRung
    \/ IoResumeRung
    \/ IoSettle

SpecIO == InitIO /\ [][NextIO]_vars

(***************************************************************************)
(* The Zoho module (the code after the text of README.md): the access      *)
(* token in config.json, its refresh after a 401, and the portal and       *)
(* project lookups that write config.json.                                 *)
(***************************************************************************)
\* Tokens are numbered in the order the authorization server mints them.
MaxTokens == 4

\* The zoho section of config.json: the access token, whether the refresh
\* token and the client credentials are there, the portal id, the projects.
ZohoSections ==
    [accessToken : {NoToken, 1}, refreshToken : BOOLEAN,
     portalId : {"none"}, projects : {<< >>}]

\* config.json as the Zoho module may find it.
ZohoConfigFiles ==
    {NoConfigFile, [exists |-> TRUE, body |-> [zoho |-> null]]}
        \cup {[exists |-> TRUE, body |-> [zoho |-> z]] : z \in ZohoSections}

\* fs.writeFileSync(CONFIG_FILE, JSON.stringify(config, null, 2))
writeConfig(cfg) == [exists |-> TRUE, body |-> cfg]

\* What the token endpoint answers: tokens, a body with an error, a body
\* without tokens, or no answer.
TokenReplies == {"tokens", "error", "no_tokens", "network"}

\* What the projects API answers to a token it accepts.
GetReplies == {"data", "no_id", "empty", "unauthorized", "server_error",
               "error_body", "network"}

\* The null a function of the module returns after logging an error.
ZohoNull(s) == [s |-> s, result |-> "null", refreshed |-> NoToken, token |-> NoToken]

\* makeZohoGetRequest: the status and body of the response, or a throw. A
\* token the server does not hold valid is answered with 401.
makeZohoGetRequest(s, accessToken, reply) ==
    IF reply = "network" THEN "throw"
    ELSE IF accessToken \notin s.valid \/ reply = "unauthorized" THEN "401"
    ELSE reply

\* refreshZohoAccessToken: loads config.json, asks for a new access token and
\* writes the loaded config with the new token back; null otherwise.
refreshZohoAccessToken(s, reply) ==
    LET cfg == loadConfig(s.file)
    IN  IF cfg = null THEN ZohoNull(s)
        ELSE IF cfg.zoho = null THEN ZohoNull(s)
        ELSE IF ~cfg.zoho.refreshToken THEN ZohoNull(s)
        ELSE IF reply # "tokens" THEN ZohoNull(s)
        ELSE LET n == s.minted + 1
             IN  [s |-> [file |-> writeConfig([cfg EXCEPT !.zoho.accessToken = n]),
                         valid |-> s.valid \cup {n}, minted |-> n],
                  result |-> "token", refreshed |-> n, token |-> n]

\* getZohoAccessToken: exchanges the generated code for tokens and writes
\* them to config.json; returns the response, whatever it holds.
\* The generated code and the client credentials are taken as present.
getZohoAccessToken(s, reply) ==
    LET cfg == loadConfig(s.file)
    IN  IF cfg = null THEN ZohoNull(s)
        ELSE IF cfg.zoho = null THEN ZohoNull(s)
        ELSE IF reply \in {"error", "network"} THEN ZohoNull(s)
        ELSE IF reply = "no_tokens"
        THEN [s |-> s, result |-> "response", refreshed |-> NoToken, token |-> NoToken]
        ELSE LET n == s.minted + 1
             IN  [s |-> [file |-> writeConfig([cfg EXCEPT !.zoho.accessToken = n,
                                                          !.zoho.refreshToken = TRUE]),
                         valid |-> s.valid \cup {n}, minted |-> n],
                  result |-> "response", refreshed |-> NoToken, token |-> n]

\* The request of the three lookups: the GET, and on a 401 the refresh and
\* the retry with the new token. response is what the checks after it see;
\* "null" when the function has already returned null.
zohoRequest(s, accessToken, first, refresh, retry) ==
    LET response == makeZohoGetRequest(s, accessToken, first)
        new == refreshZohoAccessToken(s, refresh)
    IN  IF response = "throw" THEN [s |-> s, response |-> "null", refreshed |-> NoToken]
        ELSE IF response # "401" THEN [s |-> s, response |-> response, refreshed |-> NoToken]
        ELSE IF new.token = NoToken
        THEN [s |-> new.s, response |-> "null", refreshed |-> NoToken]
        ELSE LET again == makeZohoGetRequest(new.s, new.token, retry)
             IN  [s |-> new.s,
                  response |-> IF again = "throw" THEN "null" ELSE again,
                  refreshed |-> new.token]

\* The checks of the response: statusCode 200 and no error in the body.
zohoSuccess(response) == response \in {"data", "no_id", "empty"}

\* fetchZohoPortals: config is loaded first; after a successful response with
\* a portal id, config.zoho.portalId is set and config is written.
fetchZohoPortals(s, first, refresh, retry) ==
    LET cfg == loadConfig(s.file)
    IN  IF cfg = null THEN ZohoNull(s)
        ELSE IF cfg.zoho = null THEN ZohoNull(s)
        ELSE IF cfg.zoho.accessToken = NoToken THEN ZohoNull(s)
        ELSE LET r == zohoRequest(s, cfg.zoho.accessToken, first, refresh, retry)
             IN  IF ~zohoSuccess(r.response) THEN ZohoNull(r.s)
                 ELSE [s |-> IF r.response = "data"
                             THEN [r.s EXCEPT !.file =
                                      writeConfig([cfg EXCEPT !.zoho.portalId = "zsoid"])]
                             ELSE r.s,
                       result |-> "data", refreshed |-> r.refreshed, token |-> NoToken]

\* fetchZohoProjects(portalId, accessToken): config is loaded first; after a
\* successful response with projects, config.zoho.projects is set and config
\* is written; without projects [] is returned and nothing is written.
fetchZohoProjects(s, accessToken, first, refresh, retry) ==
    LET cfg == loadConfig(s.file)
    IN  IF cfg = null THEN ZohoNull(s)
        ELSE IF cfg.zoho = null THEN ZohoNull(s)
        ELSE LET r == zohoRequest(s, accessToken, first, refresh, retry)
             IN  IF ~zohoSuccess(r.response) THEN ZohoNull(r.s)
                 ELSE [s |-> IF r.response \in {"data", "no_id"}
                             THEN [r.s EXCEPT !.file =
                                      writeConfig([cfg EXCEPT !.zoho.projects = << "project" >>])]
                             ELSE r.s,
                       result |-> "data", refreshed |-> r.refreshed, token |-> NoToken]

\* config.json and the server as a call finds them.
ZohoState == [file |-> configFile, valid |-> zoho.valid, minted |-> zoho.minted]

\* The state a call of the module leaves when it returns.
ZohoReturn(op, r, refreshed) ==
    /\ r.s.minted <= MaxTokens
    /\ configFile' = r.s.file
    /\ zoho' = [valid |-> r.s.valid, minted |-> r.s.minted, op |-> op,
                step |-> "idle", accessToken |-> NoToken,
                result |-> r.result, refreshed |-> refreshed]

ZohoFetchPortals ==
    /\ pc = "zoho"
    /\ zoho.step = "idle"
    /\ \E first \in GetReplies, refresh \in TokenReplies, retry \in GetReplies :
        LET r == fetchZohoPortals(ZohoState, first, refresh, retry)
        IN  ZohoReturn("fetchZohoPortals", r, r.refreshed)
    /\ UNCHANGED << pc, exitCode, config, promptFile, args, window, layout,
                    prompts, ticketApi, p, commits, c, ticketId, projectCommitDetails,
                    projectCommits, totalCommitCount, world, trackerActive,
                    lastFetch, blockerInfo, blockerAsked, promptBuilt,
                    finalPrompt, i, requested, replies, delays, lastError, llm,
                    inFlight, issued >>

\* fetchZohoProjects called with the access token of config.json.
ZohoFetchProjects ==
    /\ pc = "zoho"
    /\ zoho.step = "idle"
    /\ configFile.exists
    /\ configFile.body.zoho # null
    /\ \E first \in GetReplies, refresh \in TokenReplies, retry \in GetReplies :
        LET r == fetchZohoProjects(ZohoState, configFile.body.zoho.accessToken,
                                   first, refresh, retry)
        IN  ZohoReturn("fetchZohoProjects", r, r.refreshed)
    /\ UNCHANGED << pc, exitCode, config, promptFile, args, window, layout,
                    prompts, ticketApi, p, commits, c, ticketId, projectCommitDetails,
                    projectCommits, totalCommitCount, world, trackerActive,
                    lastFetch, blockerInfo, blockerAsked, promptBuilt,
                    finalPrompt, i, requested, replies, delays, lastError, llm,
                    inFlight, issued >>

\* setupZohoIntegration, step 1: getZohoAccessToken; accessToken is the
\* access_token of its response.
ZohoSetupTokens ==
    /\ pc = "zoho"
    /\ zoho.step = "idle"
    /\ \E tokens \in TokenReplies :
        LET tokenResponse == getZohoAccessToken(ZohoState, tokens)
        IN  IF tokenResponse.result = "null"
            THEN ZohoReturn("setupZohoIntegration", ZohoNull(ZohoState), NoToken)
            ELSE /\ tokenResponse.s.minted <= MaxTokens
                 /\ configFile' = tokenResponse.s.file
                 /\ zoho' = [valid |-> tokenResponse.s.valid,
                             minted |-> tokenResponse.s.minted,
                             op |-> "setupZohoIntegration", step |-> "portals",
                             accessToken |-> tokenResponse.token,
                             result |-> "", refreshed |-> NoToken]
    /\ UNCHANGED << pc, exitCode, config, promptFile, args, window, layout,
                    prompts, ticketApi, p, commits, c, ticketId, projectCommitDetails,
                    projectCommits, totalCommitCount, world, trackerActive,
                    lastFetch, blockerInfo, blockerAsked, promptBuilt,
                    finalPrompt, i, requested, replies, delays, lastError, llm,
                    inFlight, issued >>

\* setupZohoIntegration, step 2: config is loaded, the portals are requested
\* with accessToken, and the portal id is written with the loaded config.
ZohoSetupPortals ==
    /\ pc = "zoho"
    /\ zoho.step = "portals"
    /\ \E first \in GetReplies, refresh \in TokenReplies, retry \in GetReplies :
        LET cfg == loadConfig(configFile)
            r == zohoRequest(ZohoState, zoho.accessToken, first, refresh, retry)
        IN  IF cfg = null
            THEN ZohoReturn("setupZohoIntegration", ZohoNull(ZohoState), NoToken)
            ELSE IF ~zohoSuccess(r.response)
            THEN ZohoReturn("setupZohoIntegration", ZohoNull(r.s), NoToken)
            ELSE IF r.response # "data"
            THEN ZohoReturn("setupZohoIntegration",
                            [s |-> r.s, result |-> "data"], r.refreshed)
            ELSE /\ r.s.minted <= MaxTokens
                 /\ configFile' = writeConfig([cfg EXCEPT !.zoho.portalId = "zsoid"])
                 /\ zoho' = [zoho EXCEPT !.valid = r.s.valid, !.minted = r.s.minted,
                                         !.step = "projects",
                                         !.refreshed = r.refreshed]
    /\ UNCHANGED << pc, exitCode, config, promptFile, args, window, layout,
                    prompts, ticketApi, p, commits, c, ticketId, projectCommitDetails,
                    projectCommits, totalCommitCount, world, trackerActive,
                    lastFetch, blockerInfo, blockerAsked, promptBuilt,
                    finalPrompt, i, requested, replies, delays, lastError, llm,
                    inFlight, issued >>

\* setupZohoIntegration, step 3: fetchZohoProjects(portal.zsoid, accessToken)
\* with the accessToken of step 1.
ZohoSetupProjects ==
    /\ pc = "zoho"
    /\ zoho.step = "projects"
    /\ \E first \in GetReplies, refresh \in TokenReplies, retry \in GetReplies :
        LET projects == fetchZohoProjects(ZohoState, zoho.accessToken,
                                          first, refresh, retry)
        IN  IF projects.result = "null"
            THEN ZohoReturn("setupZohoIntegration", ZohoNull(projects.s), NoToken)
            ELSE ZohoReturn("setupZohoIntegration", projects,
                            IF projects.refreshed # NoToken
                            THEN projects.refreshed ELSE zoho.refreshed)
    /\ UNCHANGED << pc, exitCode, config, promptFile, args, window, layout,
                    prompts, ticketApi, p, commits, c, ticketId, projectCommitDetails,
                    projectCommits, totalCommitCount, world, trackerActive,
                    lastFetch, blockerInfo, blockerAsked, promptBuilt,
                    finalPrompt, i, requested, replies, delays, lastError, llm,
                    inFlight, issued >>

\* Time passes: the access tokens minted so far expire.
ZohoExpire ==
    /\ pc = "zoho"
    /\ zoho.valid # {}
    /\ zoho' = [zoho EXCEPT !.valid = {}]
    /\ UNCHANGED << pc, exitCode, config, promptFile, args, configFile,
                    window, layout, prompts, ticketApi, p, commits, c, ticketId,
                    projectCommitDetails, projectCommits, totalCommitCount,
                    world, trackerActive, lastFetch, blockerInfo, blockerAsked,
                    promptBuilt, finalPrompt, i, requested, replies, delays,
                    lastError, llm, inFlight, issued >>

InitZoho ==
    /\ pc = "zoho"
    /\ exitCode = NoExit
    /\ ticketApi = "ticket-api-2"
    /\ config = null
    /\ trackerActive = << >>
    /\ p = 1
    /\ commits = << >>
    /\ c = 1
    /\ ticketId = NoTicketId
    /\ projectCommitDetails = << >>
    /\ projectCommits = << >>
    /\ totalCommitCount = 0
    /\ world = << >>
    /\ lastFetch = NoFetch
    /\ blockerInfo = NoBlocker
    /\ blockerAsked = FALSE
    /\ promptBuilt = FALSE
    /\ promptFile = DefaultPromptFile
    /\ finalPrompt = << >>
    /\ i = 0
    /\ requested = << >>
    /\ replies = << >>
    /\ delays = 0
    /\ lastError = NoError
    /\ llm = NoLlm
    /\ args = NoArgs
    /\ configFile \in ZohoConfigFiles
    /\ window = NoWindow
    /\ layout = "root"
    /\ prompts = << >>
    /\ inFlight = {}
    /\ issued = << >>
    /\ \E held \in BOOLEAN :
        zoho = [NoZoho EXCEPT !.minted = 1, !.valid = IF held THEN {1} ELSE {}]

NextZoho ==
    \/ ZohoFetchPortals
    \/ ZohoFetchProjects
    \/ ZohoSetupTokens
    \/ ZohoSetupPortals
    \/ ZohoSetupProjects
    \/ ZohoExpire

SpecZoho == InitZoho /\ [][NextZoho]_vars

(***************************************************************************)
(* Properties.                                                             *)
(***************************************************************************)

\* C1 (SpecLadder): first-success-wins.  For both providers, a request that
\* returned non-empty text is the last request of the ladder: the call has
\* returned a summary and no request for a later rung was issued.
C1_FirstSuccessWins ==
    \A k \in 1..Len(replies) :
        replies[k].kind = "text"
            => /\ k = Len(replies)
               /\ Len(requested) = k
               /\ pc # "ladder"
               /\ llm = [status |-> "summary", detail |-> ""]

\* C1 witness: the ChatGPT ladder returned on its third rung, after an empty
\* reply and a server error.
C1_Witness ==
    /\ llmProvider(config) = "chatgpt"
    /\ Len(replies) = 3
    /\ replies[1].kind = "empty"
    /\ replies[2].kind = "error"
    /\ replies[3].kind = "text"
    /\ llm.status = "summary"

\* C2 (SpecLadderFair): each provider's ladder has exactly 5 rungs, a call
\* never issues more than 5 requests, and every call ends, with a summary or
\* with a thrown error, whatever the requests do.
C2_LadderBoundAndTermination ==
    /\ [](/\ Len(retrySequence("gemini")) = 5
          /\ Len(retrySequence("chatgpt")) = 5
          /\ Len(requested) <= 5
          /\ Len(replies) = Len(requested))
    /\ <>(pc = "exited" /\ llm.status \in {"summary", "threw"})

\* C2 witness: a call that used all five rungs and then threw.
C2_Witness ==
    /\ Len(requested) = 5
    /\ pc = "exited"
    /\ llm = [status |-> "threw", detail |-> "exhausted"]

\* C3 (SpecLadder): quota abort.  For either provider, when the request of the
\* first rung fails with a "quota exceeded" error, exactly one request has
\* been issued, the ladder is over and an error was thrown to the caller.
C3_QuotaAbort ==
    (/\ Len(replies) >= 1
     /\ replies[1].kind = "error"
     /\ replies[1].error.name \in {"quota", "network_quota"})
        => /\ Len(requested) = 1
           /\ pc # "ladder"
           /\ llm = [status |-> "threw", detail |-> "abort"]

\* C3 witness: the Gemini ladder after a quota error on its first rung.
C3_Witness ==
    /\ llmProvider(config) = "gemini"
    /\ Len(replies) = 1
    /\ replies[1] = ErrorOutcome(ErrorNamed("quota"))
    /\ llm.status = "threw"

\* C4 (SpecLadder): model-not-found fallback.  For either provider, the
\* request that follows a rung failed with "model not found" is addressed to
\* a different model than the failed one.
C4_ModelNotFoundFallsBack ==
    \A k \in 1..Len(replies) :
        (/\ replies[k].kind = "error"
         /\ replies[k].error.name = "model_not_found"
         /\ k < Len(requested))
            => requested[k + 1] # requested[k]

\* C5 (Spec): in a run that found commits, when the summarizer call ends in
\* an error (abort on the first rung, exhaustion, or any other throw) the
\* error is caught by main, the run goes on to its end and the exit code is
\* 0, not 1.
C5_LlmFailureNotFatal ==
    llm.status = "threw"
        => /\ totalCommitCount > 0
           /\ pc = "exited"
           /\ exitCode = 0

\* C5 witness: the ladder aborted (rate limit on a rung) in a run with
\* commits, and the process ended with code 0.
C5_Witness ==
    /\ llm = [status |-> "threw", detail |-> "abort"]
    /\ totalCommitCount > 0
    /\ Len(projectCommits) > 0
    /\ exitCode = 0

\* C6 (Spec): when every configured project has been processed and the total
\* commit count is zero, the run is at the zero-commit check or has exited
\* with code 0, and the blocker step, the prompt rendering and the LLM call
\* have not happened.
C6_NoCommitsExit ==
    (/\ pc # "start"
     /\ Len(config.projects) > 0
     /\ p > Len(config.projects)
     /\ totalCommitCount = 0)
        => /\ pc \in {"loop", "exited"}
           /\ (pc = "exited" => exitCode = 0)
           /\ ~ blockerAsked
           /\ ~ promptBuilt
           /\ llm = NoLlm
    /\ Loaded
           /\ requested = << >>

\* C6 witness: two projects scanned, no commit found, exit with code 0.
C6_Witness ==
    /\ Len(config.projects) = 2
    /\ Len(world) = 2
    /\ totalCommitCount = 0
    /\ pc = "exited"
    /\ exitCode = 0

\* "The project has an active ticket": it has Jira credentials and the
\* tracker holds an active ticket for the assignee.
HasActiveTickets(q) == config.projects[q].jira /\ trackerActive # << >>

\* C7 (Spec): bundle retention.  After the project loop, a project's bundle
\* is absent from projectCommits when the project has zero commits and zero
\* active tickets and is present exactly once when it has a commit or an
\* active ticket, and the bundles are in declaration order.
C7_BundleRetention ==
    (/\ pc \in {"loop", "blocker", "llm", "exited"}
     /\ Len(config.projects) > 0
     /\ p > Len(config.projects)
     /\ Len(world) = Len(config.projects))
        => /\ \A q \in 1..Len(config.projects) :
                Cardinality({k \in 1..Len(projectCommits) :
                                projectCommits[k].projectName = q})
                    = IF world[q].commits > 0 \/ HasActiveTickets(q) THEN 1 ELSE 0
           /\ \A k \in 1..(Len(projectCommits) - 1) :
                projectCommits[k].projectName < projectCommits[k + 1].projectName

\* The ordered pattern list of the claim: the built-in Jira pattern, then the
\* custom patterns in configured order.
C8_PatternList == << JiraPattern >> \o config.customTicketPatterns

\* Indices of the patterns of the list that match the commit line.
C8_Matching ==
    {k \in 1..Len(C8_PatternList) : StringMatch(commits[1], C8_PatternList[k]).found}

\* C8 as stated (SpecExtract): the extracted id is the match of the first
\* pattern in list order that matches the line, and it is the sentinel
\* "No ticket ID" exactly when no pattern matches.
C8_ExtractionAsStated ==
    pc = "extracted"
        => /\ C8_Matching # {}
                => ticketId = StringMatch(commits[1], C8_PatternList[Min(C8_Matching)]).text
           /\ (ticketId = NoTicketId) <=> (C8_Matching = {})

\* C8 amended (SpecExtract): the extracted id is the match of the first
\* pattern in list order that matches the line (so a custom pattern is used
\* only when the built-in pattern does not match), and is the sentinel when no
\* pattern matches; the id equals the sentinel only when no pattern matches
\* or when the first matching pattern matched the text "No ticket ID" itself.
C8_ExtractionFirstMatch ==
    pc = "extracted"
        => /\ C8_Matching # {}
                => ticketId = StringMatch(commits[1], C8_PatternList[Min(C8_Matching)]).text
           /\ C8_Matching = {} => ticketId = NoTicketId
           /\ StringMatch(commits[1], JiraPattern).found
                => ticketId = StringMatch(commits[1], JiraPattern).text
           /\ ticketId = NoTicketId
                => \/ C8_Matching = {}
                   \/ StringMatch(commits[1], C8_PatternList[Min(C8_Matching)]).text
                        = NoTicketId

\* C8 witness: the line "A-1#" with two custom patterns, where the built-in
\* pattern and a custom pattern both match and the built-in match "A-1" wins.
C8_Witness ==
    /\ pc = "extracted"
    /\ commits[1] = << "A", "-", "1", "#" >>
    /\ Len(config.customTicketPatterns) = 2
    /\ Cardinality(C8_Matching) >= 2
    /\ ticketId = << "A", "-", "1" >>

\* C9 (Spec): a tracker request that fails (non-success status, network
\* error, or success status with a body that cannot be parsed) makes
\* fetchTicketDescription settle with null, and the commit loop of the
\* project goes on.
C9_FetchFailureIsNull ==
    (/\ lastFetch.requests = 1
     /\ lastFetch.outcome \in {"http_fail", "net_error", "bad_body"})
        => /\ lastFetch.result = "null"
           /\ pc \in {"commits", "tickets"}

\* C10 (SpecFetch): fetchTicketDescription returns null and issues no request
\* when the ticket id is the sentinel, and when the configured tracker type is
\* missing or is neither "jira" nor "zoho".
C10_ShortCircuit ==
    (/\ pc = "fetched"
     /\ \/ lastFetch.id = NoTicketId
        \/ lastFetch.system = "missing"
        \/ toLowerCase(lastFetch.system) \notin {"jira", "zoho"})
        => /\ lastFetch.result = "null"
           /\ lastFetch.requests = 0

\* The rank of the claim: {Highest:1, High:2, Medium:3, Low:4, None:5}, any
\* other value 999.
C11_Rank(name) ==
    CASE name = "Highest" -> 1
      [] name = "High" -> 2
      [] name = "Medium" -> 3
      [] name = "Low" -> 4
      [] name = "None" -> 5
      [] OTHER -> 999

\* C11 (SpecSort): priority sort.  When the lister returned the tracker's
\* tickets, the list in the bundle is a permutation of the tracker's list, its
\* ranks are non-decreasing (so unrecognized priorities come last), and
\* tickets of equal rank are in the order the tracker returned them.
C11_PrioritySort ==
    (/\ pc = "loop"
     /\ Len(projectCommits) = 1
     /\ Len(projectCommits[1].activeTickets) = Len(trackerActive))
        => LET out == projectCommits[1].activeTickets
           IN  /\ \A k \in 1..Len(trackerActive) :
                    \E j \in 1..Len(out) : out[j] = trackerActive[k]
               /\ \A j \in 1..(Len(out) - 1) :
                    /\ C11_Rank(out[j].priority) <= C11_Rank(out[j + 1].priority)
                    /\ C11_Rank(out[j].priority) = C11_Rank(out[j + 1].priority)
                         => out[j].key < out[j + 1].key

\* C12 (SpecRender): permissive rendering.  Rendering always produces a
\* prompt; when the template lacks {BLOCKERS} the prompt is the template with
\* the project data in place of {PROJECT_DATA} and nothing else changed or
\* added (no blocker text); when it lacks {PROJECT_DATA} the prompt is the
\* template with the blocker text in place of {BLOCKERS} and nothing else.
C12_PermissiveRendering ==
    pc = "ladder"
        => LET template == loadPromptTemplate(promptFile)
               data == ProjectDataText(projectCommits)
           IN  /\ promptBuilt
               /\ IndexOf(template, "{BLOCKERS}", 1) = 0
                    => finalPrompt = Replace(template, "{PROJECT_DATA}", data)
               /\ IndexOf(template, "{PROJECT_DATA}", 1) = 0
                    => finalPrompt = Replace(template, "{BLOCKERS}", blockerInfo)

\* C13 (SpecExtract): supported ticket formats.  From a commit line that
\* contains a ticket id of a documented shape (PROJ-123, M3-3633, AY1Q-T296)
\* the extraction yields that whole id, not the sentinel and not a fragment.
C13_SupportedFormats ==
    (pc = "extracted" /\ commits[1] \in DocumentedLines)
        => \E id \in DocumentedIds :
            /\ \E k \in 1..(Len(commits[1]) - Len(id) + 1) :
                    SubSeq(commits[1], k, k + Len(id) - 1) = id
            /\ ticketId = id

\* Instants of the days around the days --date may name: midnight, noon and
\* the last minute of each.
C14_Instants ==
    {Instant(d, hm[1], hm[2]) : d \in 0..(MaxDay + 2),
                                hm \in {<< 0, 0 >>, << 12, 0 >>, << 23, 59 >>}}

\* C14: once --date D has been parsed, the git command selects exactly the
\* commits of day D, from D 00:00 up to the start of the next day; no commit
\* of the day after D is selected.
C14_DateRestriction ==
    (args.date.kind = "valid" /\ window # NoWindow) =>
        \A t \in C14_Instants :
            Selects(gitCommand(window), t) <=>
                (/\ Instant(args.date.day, 0, 0) <= t
                 /\ t < Instant(args.date.day + 1, 0, 0))

\* The report run has loaded or created its config (main is past line 468).
C15_ReportRun == args.command = "report" /\ pc \notin {"cli", "dispatch"}

\* The config has no non-blank API key for the selected provider.
C15_NoApiKey ==
    \/ config.llmProvider = "gemini" /\ config.geminiApiKey \in {"missing", "", " "}
    \/ config.llmProvider = "chatgpt" /\ config.chatgptApiKey \in {"missing", "", " "}

\* The token after --date is not of the shape YYYY-MM-DD, or is not a date.
C15_BadDate == args.date.kind \in {"malformed", "invalid"}

\* The run found no config.json: the setup wizard asked its questions.
C15_NoConfigFile == prompts # << >>

\* The process is still validating, or it has exited with code 1; no project
\* was scanned and no LLM request was prepared or sent.
C15_FatalBeforeWork ==
    /\ pc \in {"start", "date"} \/ (pc = "exited" /\ exitCode = 1)
    /\ world = << >>
    /\ promptBuilt = FALSE
    /\ llm = NoLlm

C16_PromptFileLifecycle ==
    [][(pc = "save" /\ pc' = "saved"
            /\ configFile' = [exists |-> TRUE, body |-> config])
        => /\ promptFile'.exists
           /\ promptFile.exists => promptFile' = promptFile
           /\ ~promptFile.exists => promptFile' = DefaultPromptFile]_vars

\* The API key a config holds for the provider of choice "1" or "2".
C17_KeyOf(cfg, llmChoice) ==
    IF llmChoice = "1" THEN cfg.geminiApiKey ELSE cfg.chatgptApiKey

C18_SetupReruns ==
    (args.setup /\ pc = "exited")
        => /\ prompts # << >>
           /\ prompts[1].q = "author"
           /\ configFile.exists

\* C19 (SpecLadder): rate-limit abort.  For either provider, a rung that
\* failed with an error whose text (message or structured message) contains
\* "rate limit", or whose code is rate_limit_exceeded, is the last rung
\* requested: the ladder threw to the caller at that rung, whatever else the
\* error text mentions.
C19_RateLimitAbort ==
    \A k \in 1..Len(replies) :
        (/\ replies[k].kind = "error"
         /\ \/ "rate limit" \in (replies[k].error.msg \cup replies[k].error.data)
            \/ replies[k].error.code = "rate_limit_exceeded")
            => /\ Len(requested) = k
               /\ pc # "ladder"
               /\ llm = [status |-> "threw", detail |-> "abort"]

\* C20 (SpecLadder): billing and credential abort.  For either provider, a
\* rung that failed with an error whose text (message or structured message)
\* contains "billing", "invalid api key" or "unauthorized" is the last rung
\* requested: the ladder threw to the caller at that rung.
C20_BillingCredentialAbort ==
    \A k \in 1..Len(replies) :
        (/\ replies[k].kind = "error"
         /\ {"billing", "invalid api key", "unauthorized"}
                \cap (replies[k].error.msg \cup replies[k].error.data) # {})
            => /\ Len(requested) = k
               /\ pc # "ladder"
               /\ llm = [status |-> "threw", detail |-> "abort"]

\* Failures no classifier counts as final: a server error, a non-ok response
\* without a structured error body, a network error (request failed or timed
\* out).
C21_Retryable == {"server", "no_error_body", "network"}

\* C21 (SpecLadder): a retryable failure advances the ladder.  For either
\* provider and every rung k before the last, when the request of rung k
\* failed with a retryable error, the ladder did not end at rung k: it is
\* still running or rung k + 1 was requested, and one delay was awaited for
\* every such failure.
C21_RetryableAdvances ==
    /\ \A k \in 1..Len(replies) :
        (/\ k < Len(retrySequence(llmProvider(config)))
         /\ replies[k].kind = "error"
         /\ replies[k].error.name \in C21_Retryable)
            => (pc = "ladder" \/ Len(requested) > k)
    /\ delays >= Cardinality({k \in 1..Len(replies) :
                                /\ k < Len(retrySequence(llmProvider(config)))
                                /\ replies[k].kind = "error"
                                /\ replies[k].error.name \in C21_Retryable})

\* The rungs whose request failed with an error, among those replied so far.
C22_FailedRungs == {k \in 1..Len(replies) : replies[k].kind = "error"}

\* C22 (SpecLadder): exhaustion error.  When all five rungs were requested
\* and none returned a summary, the summarizer has thrown, and if any rung
\* failed with an error the message of the thrown error embeds the detail of
\* the most recent such failure.
C22_ExhaustionEmbedsLast ==
    (/\ Len(requested) = Len(retrySequence(llmProvider(config)))
     /\ pc # "ladder"
     /\ llm.status # "summary")
        => /\ llm.status = "threw"
           /\ C22_FailedRungs # {}
                => LET last == CHOOSE k \in C22_FailedRungs :
                                   \A j \in C22_FailedRungs : j <= k
                   IN  thrownMessage(llm.detail, lastError) = replies[last].error.name

\* The rungs before the last whose request returned empty or missing text.
C23_EmptyRungs ==
    {k \in 1..Len(replies) :
        k < Len(retrySequence(llmProvider(config))) /\ replies[k].kind = "empty"}

\* C23 (SpecLadder): an empty response is a failed rung.  A rung before the
\* last that returned empty text did not end the ladder (it is still running
\* or the next rung was requested), a delay was awaited after each such rung,
\* as after a retryable error, and a summary handed to the caller is the
\* non-empty text of the last request.
C23_EmptyIsFailedRung ==
    /\ \A k \in C23_EmptyRungs : pc = "ladder" \/ Len(requested) > k
    /\ delays >= Cardinality(C23_EmptyRungs)
    /\ llm.status = "summary" => replies[Len(replies)].kind = "text"

\* C24 (SpecLadder): rungs are probed with their own model.  For either
\* provider the request of every attempted rung is addressed to the model
\* that rung names in the retry sequence, so the models requested so far are
\* a prefix of the declared ladder.
C24_OwnModel ==
    /\ Len(requested) <= Len(retrySequence(llmProvider(config)))
    /\ \A k \in 1..Len(requested) :
           requested[k] = retrySequence(llmProvider(config))[k].model

\* C25 (Spec): active-ticket listing is per project.  The lister is never
\* called more than once for a project, never for a project without tracker
\* credentials, and once the loop has left a project that has tracker
\* credentials the lister has been called exactly once for it, however many
\* commits the project has.
C25_ListedOncePerProject ==
    \A q \in 1..Len(world) :
        /\ world[q].listed <= 1
        /\ ~config.projects[q].jira => world[q].listed = 0
        /\ (q < p /\ config.projects[q].jira) => world[q].listed = 1

\* The step is the git log of project p failing.
C26_ScanFails ==
    /\ pc = "loop"
    /\ Len(world') = Len(world) + 1
    /\ world'[Len(world')].scanFailed

\* The step is the lister of project p failing: the tracker holds active
\* tickets, the lister was called, and the project got none.
C26_ListerFails ==
    /\ pc = "tickets"
    /\ config.projects[p].jira
    /\ trackerActive # << >>
    /\ world'[p].listed = world[p].listed + 1
    /\ projectCommits' # projectCommits
          => projectCommits'[Len(projectCommits')].activeTickets = << >>

C27_Before(a, b) ==
    IF a.kind = "llm" THEN b.kind = "llm" /\ a.rung < b.rung
    ELSE IF b.kind = "llm" THEN TRUE
    ELSE \/ a.project < b.project
         \/ /\ a.project = b.project
            /\ a.kind = "ticket"
            /\ (b.kind = "lister" \/ a.commit < b.commit)

\* C27: I/O is strictly sequential. At most one network request is in flight;
\* a request is issued only when every earlier one has settled; requests are
\* issued in the order of the projects, within a project in the order of the
\* commits and then the lister, and the rungs of the ladder in order; and no
\* LLM request is issued before every project has been processed.
C27_SequentialIO ==
    /\ [](/\ Cardinality(inFlight) <= 1
          /\ \A m \in 1..Len(issued) : \A n \in 1..Len(issued) :
                m < n => C27_Before(issued[m], issued[n])
          /\ (\E n \in 1..Len(issued) : issued[n].kind = "llm")
                => p > Len(config.projects))
    /\ [][issued' # issued => inFlight = {}]_vars

\* C27: a run that has sent a ticket fetch and a lister request for its first
\* project, a tracker request for its second, and has a request of the second
\* rung of the ladder in flight.
C27_Witness ==
    /\ \E n \in 1..Len(issued) : issued[n].kind = "ticket" /\ issued[n].project = 1
    /\ \E n \in 1..Len(issued) : issued[n].kind = "lister" /\ issued[n].project = 1
    /\ \E n \in 1..Len(issued) : issued[n].kind # "llm" /\ issued[n].project = 2
    /\ \E request \in inFlight : request.kind = "llm" /\ request.rung = 1


\* C28: the commits held by the bundles of projectCommits.
RECURSIVE C28_BundledCommits(_)
C28_BundledCommits(bundles) ==
    IF bundles = << >> THEN 0
    ELSE Len(Head(bundles).commits) + C28_BundledCommits(Tail(bundles))

\* C28: the run is at the LLM step: the project loop and the zero-commit
\* exit are behind it.
C28_AtLlmStep == pc \in {"blocker", "llm"}

\* C28: whenever a run reaches the LLM step, totalCommitCount equals the sum
\* of the commit counts of the bundles in projectCommits, so the bundle list
\* is not empty; no project's commits are counted while its bundle is missing.
C28_CountMatchesBundles ==
    C28_AtLlmStep =>
        /\ totalCommitCount = C28_BundledCommits(projectCommits)
        /\ projectCommits # << >>
        /\ \A k \in 1..Len(world) :
              (~world[k].scanFailed /\ world[k].commits > 0)
                 => \E n \in 1..Len(projectCommits) : projectCommits[n].projectName = k


\* C29: the template with the project data at its own {PROJECT_DATA} position
\* and the blocker text at its own {BLOCKERS} position, both inserted as
\* they are.
C29_Substituted(template, data, blocker) ==
    LET kd == IndexOf(template, "{PROJECT_DATA}", 1)
        kb == IndexOf(template, "{BLOCKERS}", 1)
    IN  Flatten([k \in 1..Len(template) |->
                    IF k = kd THEN data
                    ELSE IF k = kb THEN blocker
                    ELSE << template[k] >>])

\* C29 (SpecRender): placeholder substitution is not captured by data.  For
\* every template containing both {PROJECT_DATA} and {BLOCKERS} the prompt is
\* the template with the project data at the template's {PROJECT_DATA} and
\* the blocker text at the template's {BLOCKERS}, whatever the data and the
\* blocker text contain.
C29_NotCapturedByData ==
    LET template == loadPromptTemplate(promptFile)
    IN  (/\ pc = "ladder"
         /\ IndexOf(template, "{PROJECT_DATA}", 1) # 0
         /\ IndexOf(template, "{BLOCKERS}", 1) # 0)
            => finalPrompt = C29_Substituted(template,
                                             ProjectDataText(projectCommits),
                                             blockerInfo)


\* C30: the call that has just returned got a 401, refreshed the access token
\* and succeeded on the retried request.
C30_RefreshedAndSucceeded ==
    /\ zoho.op \in {"fetchZohoPortals", "fetchZohoProjects", "setupZohoIntegration"}
    /\ zoho.result = "data"
    /\ zoho.refreshed # NoToken

\* C30 (SpecZoho): the refreshed Zoho token is not lost.  When fetchZohoProjects,
\* fetchZohoPortals or setupZohoIntegration gets a 401, refreshes the access
\* token and succeeds on the retry, the access token in config.json when the
\* operation returns is the refreshed token.
C30_RefreshedTokenKept ==
    C30_RefreshedAndSucceeded
        => /\ configFile.exists
           /\ configFile.body.zoho.accessToken = zoho.refreshed

====
